---- MODULE Spec2Model ----
(***************************************************************************)
(* trackid: identification of a music track from an audio source.         *)
(*                                                                         *)
(* The module models                                                       *)
(*   - the chunk boundary planner of audio.py (calculate_chunk_boundaries, *)
(*     get_total_duration_for_chunks), as operators computed the way the   *)
(*     code computes them, exercised by the specification SpecPlan;        *)
(*   - the orchestration of cli.py (identify_with_chunks, identify_single) *)
(*     over identify.py (identify_track, identify_shazam,                  *)
(*     identify_acrcloud), as a step machine, specification Spec.          *)
(***************************************************************************)
EXTENDS Integers, Sequences, FiniteSets, TLC

(***************************************************************************)
(* Bounds of the model (inputs are drawn from these ranges).               *)
(***************************************************************************)
\* planner: timestamps 0..MaxTimestamp
MaxTimestamp == 12
\* planner: num_chunks in -NegNumChunks..MaxNumChunks (below 1 and above 5)
MaxNumChunks == 7
NegNumChunks == 1
\* orchestrator: num_chunks in 0..MaxScanChunks
MaxScanChunks == 3
\* longest list of services a caller passes
MaxServices == 2
\* identify_multiple: longest list of audio paths
MaxFiles == 2
\* format_time: every second up to MaxSeconds is formatted, and hour counts
\* up to MaxHours
MaxSeconds == 150
MaxHours == 100
\* download_audio: files the stem glob yields beside the candidates
MaxGlob == 2
\* download_audio: stderr is up to StderrLimit + MaxStderrExcess characters
MaxStderrExcess == 1
\* chop_into_chunks: total durations 0..MaxDuration seconds
MaxDuration == 66
\* chop_into_chunks: the shortest chunk_duration a caller passes
MinChunkDuration == 12
\* chop_into_chunks: chunk files 0..MaxStale-1 may be on disk beforehand
MaxStale == 1
\* chop_into_chunks: runs over the same output directory
MaxRuns == 2

(***************************************************************************)
(* Program constants.                                                      *)
(***************************************************************************)
\* audio.py:318  num_chunks = max(1, min(5, num_chunks))
MinChunks == 1
MaxChunks == 5
\* audio.py:323  chunk0_start = max(0, timestamp - 10)
Chunk0Before == 10
\* audio.py:324  chunk0_end = timestamp + 20
Chunk0After == 20
\* audio.py:329  start = timestamp + 20 + (i - 1) * 20 ; end = start + 20
ExtraChunkLen == 20
\* audio.py:285  if total_duration % chunk_duration > 5
RemainderThreshold == 5
\* config.py:37  default_chunk_duration: int = 20
default_chunk_duration == 20

Max(a, b) == IF a >= b THEN a ELSE b
Min(a, b) == IF a <= b THEN a ELSE b

(***************************************************************************)
(* audio.py: calculate_chunk_boundaries                                    *)
(***************************************************************************)
\* faulty variant: the upper clamp is missing
clamp_num_chunks_no_upper(num_chunks) == Max(MinChunks, num_chunks)

\* line 318
clamp_num_chunks(num_chunks) == Max(MinChunks, Min(MaxChunks, num_chunks))

\* faulty variant: the start of chunk 0 is not clamped at zero
chunk0_unclamped(timestamp) == <<timestamp - Chunk0Before, timestamp + Chunk0After>>

\* lines 323-325
chunk0(timestamp) == <<Max(0, timestamp - Chunk0Before), timestamp + Chunk0After>>

\* faulty variant: off by one chunk (i instead of i - 1)
extra_chunk_off_by_one(timestamp, i) ==
    LET start == timestamp + Chunk0After + i * ExtraChunkLen
    IN  <<start, start + ExtraChunkLen>>

\* lines 329-331, the body of the loop for one i
extra_chunk(timestamp, i) ==
    LET start == timestamp + Chunk0After + (i - 1) * ExtraChunkLen
    IN  <<start, start + ExtraChunkLen>>

\* lines 328-331: for i in range(i, num_chunks): boundaries.append(...)
RECURSIVE extra_chunks(_, _, _)
extra_chunks(timestamp, i, num_chunks) ==
    IF i >= num_chunks
    THEN <<>>
    ELSE <<extra_chunk(timestamp, i)>> \o extra_chunks(timestamp, i + 1, num_chunks)

\* lines 302-333
calculate_chunk_boundaries(timestamp, num_chunks) ==
    LET n == clamp_num_chunks(num_chunks)
    IN  <<chunk0(timestamp)>> \o extra_chunks(timestamp, 1, n)

(***************************************************************************)
(* audio.py: get_total_duration_for_chunks                                 *)
(***************************************************************************)
\* faulty variant: the end of the first window instead of the last
get_total_duration_first_end(timestamp, num_chunks) ==
    LET boundaries == calculate_chunk_boundaries(timestamp, num_chunks)
    IN  <<boundaries[1][1], boundaries[1][2]>>

\* lines 336-349: (boundaries[0][0], boundaries[-1][1])
get_total_duration_for_chunks(timestamp, num_chunks) ==
    LET boundaries == calculate_chunk_boundaries(timestamp, num_chunks)
    IN  <<boundaries[1][1], boundaries[Len(boundaries)][2]>>

(***************************************************************************)
(* audio.py: chop_into_chunks                                              *)
(***************************************************************************)
\* faulty variant: a remainder of exactly 5 seconds gets a chunk too
planned_chunks_inclusive(total_duration, chunk_duration) ==
    LET n == Max(1, total_duration \div chunk_duration)
    IN  IF total_duration % chunk_duration >= RemainderThreshold THEN n + 1 ELSE n

\* audio.py 284-286: the number of chunks of a file of total_duration seconds
planned_chunks(total_duration, chunk_duration) ==
    LET n == Max(1, total_duration \div chunk_duration)                    \* 284
    IN  IF total_duration % chunk_duration > RemainderThreshold            \* 285
        THEN n + 1 ELSE n                                                  \* 286

\* A chunk file of the output directory is "absent", "empty" (zero bytes),
\* "old" (data that was there before the first call) or holds the data
\* that call number r wrote, Written(r).
Written(r) == IF r = 1 THEN "run1" ELSE IF r = 2 THEN "run2" ELSE "run3"

\* audio.py 296: chunk_path.exists() and chunk_path.stat().st_size > 0
non_empty(file) == file \notin {"absent", "empty"}

\* faulty variant: every chunk is extracted, on disk or not
must_extract_always(file) == TRUE

\* audio.py 294: if not chunk_path.exists()
must_extract(file) == file = "absent"

\* what extract_segment (audio.py 201-255) does to the chunk file: "ok"
\* writes data, "empty" writes a zero-byte file, "raise" raises
\* ProcessingError and leaves the path as it was, "partial" raises
\* ProcessingError after ffmpeg wrote part of the file
ExtractOutcome == {"ok", "empty", "raise", "partial"}

extract_segment(file, outcome, r) ==
    CASE outcome = "ok" -> Written(r)
      [] outcome = "empty" -> "empty"
      [] outcome = "partial" -> Written(r)
      [] OTHER -> file

extract_raises(outcome) == outcome \in {"raise", "partial"}

(***************************************************************************)
(* audio.py: download_audio, convert_to_mp3                                *)
(***************************************************************************)
\* audio.py 151: result.stderr[:500]
StderrLimit == 500

\* audio.py 130: the extensions tried on the destination, in this order
CandidateExts == <<".mp3", ".m4a", ".opus", ".webm", ".mp3.mp3">>

\* The files of the destination directory whose name starts with the stem
\* of the destination: `cand[e]` is the file with the extension
\* CandidateExts[e] ("absent", "empty" or "data"), `globbed` the other files
\* in the order in which glob yields them, each with its suffix ("mp3" or
\* "other") and its size ("empty" or "data").
Directory(cand, globbed) == [cand |-> cand, globbed |-> globbed]
GlobbedFile == [suffix : {"mp3", "other"}, size : {"empty", "data"}]
EmptyDirectory == Directory([e \in 1..Len(CandidateExts) |-> "absent"], <<>>)

\* what yt-dlp did: it ran out of time, or it exited with status 0 or 1,
\* having written `stderr` characters of messages
ToolOutcome == {"timeout", "exit0", "exit1"}
Tool(outcome, stderr) == [outcome |-> outcome, stderr |-> stderr]

\* what convert_to_mp3 does (audio.py 158-198): "ok" returns with the output
\* written, "fail" (status not 0 or no output) and "timeout" raise
\* ProcessingError
ConvertOutcome == {"ok", "fail", "timeout"}
Convert(input, outcome) == [input |-> input, outcome |-> outcome]

\* faulty variant: a file that exists is taken, empty or not
first_candidate_any_size(cand) ==
    LET hits == {e \in 1..Len(cand) : cand[e] # "absent"}
    IN  IF hits = {} THEN 0 ELSE CHOOSE e \in hits : \A h \in hits : e <= h

\* audio.py 130-132: the first extension whose file exists and is not
\* empty; 0 when there is none
first_candidate(cand) ==
    LET hits == {e \in 1..Len(cand) : non_empty(cand[e])}
    IN  IF hits = {} THEN 0 ELSE CHOOSE e \in hits : \A h \in hits : e <= h

\* audio.py 142-143: the first file of the glob that is not empty; 0 when
\* there is none
first_globbed(globbed) ==
    LET hits == {g \in 1..Len(globbed) : globbed[g].size # "empty"}
    IN  IF hits = {} THEN 0 ELSE CHOOSE g \in hits : \A h \in hits : g <= h

RemoveAt(s, n) == SubSeq(s, 1, n - 1) \o SubSeq(s, n + 1, Len(s))

\* faulty variant: the whole of stderr goes into the message
stderr_prefix_whole(stderr) == stderr

\* audio.py 151: the characters of stderr the message carries
stderr_prefix(stderr) == Min(stderr, StderrLimit)

\* faulty variant: no candidate is transcoded
candidate_needs_convert_never(e) == FALSE

\* audio.py 134: if ext != ".mp3"
candidate_needs_convert(e) == CandidateExts[e] # ".mp3"

\* audio.py 144: if f.suffix != ".mp3"
globbed_needs_convert(file) == file.suffix # "mp3"

\* what download_audio did: `raised` is "none", "DownloadError" or
\* "ProcessingError"; `path` the extension of the returned path on the
\* destination stem; `carried` the characters of stderr in the message;
\* `selected` the file taken; `converts` the calls of convert_to_mp3;
\* `dir` the directory afterwards
Download(raised, message, carried, selected, converts, dir) ==
    [raised |-> raised, path |-> IF raised = "none" THEN ".mp3" ELSE "",
     message |-> message, carried |-> carried, selected |-> selected,
     converts |-> converts, dir |-> dir]

\* audio.py 133-139: the candidate e is taken
take_candidate(dir, e, conv) ==
    IF candidate_needs_convert(e)                                   \* 134
    THEN IF conv = "ok"
         THEN Download("none", "", 0, <<"candidate", e>>,           \* 135-136
                       <<Convert(CandidateExts[e], conv)>>,
                       Directory([dir.cand EXCEPT ![1] = "data", ![e] = "absent"],
                                 dir.globbed))
         ELSE Download("ProcessingError", "", 0, <<"candidate", e>>,
                       <<Convert(CandidateExts[e], conv)>>, dir)
    ELSE Download("none", "", 0, <<"candidate", e>>, <<>>, dir)     \* 137-139

\* audio.py 143-149: the file g of the glob is taken
take_globbed(dir, g, conv) ==
    IF globbed_needs_convert(dir.globbed[g])                        \* 144
    THEN IF conv = "ok"
         THEN Download("none", "", 0, <<"glob", g>>,                \* 145-146
                       <<Convert("glob", conv)>>,
                       Directory([dir.cand EXCEPT ![1] = "data"],
                                 RemoveAt(dir.globbed, g)))
         ELSE Download("ProcessingError", "", 0, <<"glob", g>>,
                       <<Convert("glob", conv)>>, dir)
    ELSE Download("none", "", 0, <<"glob", g>>, <<>>,               \* 147-149
                  Directory([dir.cand EXCEPT ![1] = dir.globbed[g].size],
                            RemoveAt(dir.globbed, g)))

\* audio.py 118-155: download_audio once yt-dlp has done `tool` and left the
\* directory `dir`; `conv` is what convert_to_mp3 does if it is called
download_audio(tool, dir, conv) ==
    IF tool.outcome = "timeout"                                     \* 154-155
    THEN Download("DownloadError", "timed out", 0, <<>>, <<>>, dir)
    ELSE LET e == first_candidate(dir.cand)
             g == first_globbed(dir.globbed)
         IN  IF e # 0 THEN take_candidate(dir, e, conv)
             ELSE IF g # 0 THEN take_globbed(dir, g, conv)
             ELSE IF tool.stderr > 0                                \* 151-152
                  THEN Download("DownloadError", "failed",
                                stderr_prefix(tool.stderr), <<>>, <<>>, dir)
                  ELSE Download("DownloadError", "failed: Unknown error", 0,
                                <<>>, <<>>, dir)

(***************************************************************************)
(* identify.py: services, matches, adapters                                *)
(***************************************************************************)
\* identify.py 14-19, cli.py 50-55: the service names
Service == {"shazam", "acrcloud", "all"}

\* services: list[str] | None.  None is the one-element list <<"None">>,
\* which names no service.
NONE == <<"None">>
NoMatch == <<>>

\* an Optional[TrackMatch] is <<>> (None) or <<match>>
\* identify.py 22-33: the match of `service` for the audio file `audio`
TrackMatch(service, audio) == [service |-> service, audio |-> audio]

\* what a function call does: return a value, or raise
Return(v) == [raised |-> FALSE, value |-> v]
Raise == [raised |-> TRUE, value |-> NoMatch]

\* What the provider's call does inside the adapter: a response that holds a
\* match, a response without one, or an exception (network, malformed data).
ProviderOutcome == {"match", "nomatch", "error"}

\* faulty variant: an exception of the provider call is not caught
identify_shazam_uncaught(outcome, audio) ==
    IF outcome = "match" THEN Return(<<TrackMatch("shazam", audio)>>)
    ELSE IF outcome = "error" THEN Raise
    ELSE Return(NoMatch)

\* identify.py 42-79
identify_shazam(outcome, audio) ==
    IF outcome = "match"
    THEN Return(<<TrackMatch("shazam", audio)>>)     \* 55-73
    ELSE Return(NoMatch)                             \* 75-79

\* faulty variant: every exception of the call is raised as IdentificationError
identify_acrcloud_raise_all(configured, installed, outcome, audio) ==
    IF ~configured THEN Return(NoMatch)
    ELSE IF ~installed \/ outcome = "error" THEN Raise
    ELSE IF outcome = "match" THEN Return(<<TrackMatch("acrcloud", audio)>>)
    ELSE Return(NoMatch)

\* identify.py 82-138
identify_acrcloud(configured, installed, outcome, audio) ==
    IF ~configured THEN Return(NoMatch)              \* 92-93
    ELSE IF ~installed THEN Raise                    \* 96, 132-133
    ELSE IF outcome = "match"
         THEN Return(<<TrackMatch("acrcloud", audio)>>)   \* 102-130
         ELSE Return(NoMatch)                        \* 134-138

Range(s) == {s[j] : j \in 1..Len(s)}

\* faulty variant: shazam is always consulted first
effective_services_sorted(services) ==
    IF services = NONE \/ "all" \in Range(services)
    THEN <<"shazam", "acrcloud">>
    ELSE SelectSeq(services, LAMBDA x : x = "shazam")
         \o SelectSeq(services, LAMBDA x : x # "shazam")

\* identify.py 155-156
effective_services(services) ==
    IF services = NONE \/ "all" \in Range(services)
    THEN <<"shazam", "acrcloud">>
    ELSE services

\* faulty variant: acrcloud is consulted before shazam
cli_services_acr_first(service, configured) ==
    LET chosen == IF service # "all" THEN <<service>> ELSE <<"acrcloud", "shazam">>
    IN  IF ~configured THEN SelectSeq(chosen, LAMBDA x : x # "acrcloud") ELSE chosen

\* cli.py 176-181
cli_services(service, configured) ==
    LET chosen == IF service # "all" THEN <<service>> ELSE <<"shazam", "acrcloud">>
    IN  IF "acrcloud" \in Range(chosen) /\ ~configured
        THEN SelectSeq(chosen, LAMBDA x : x # "acrcloud")
        ELSE chosen

(***************************************************************************)
(* identify.py: the responses of the providers and how the adapters read   *)
(* them                                                                    *)
(***************************************************************************)
\* A JSON value is [t |-> its type, v |-> its content]: the content of
\* null is <<>>, of a string or a number a one-element tuple, of a list the
\* tuple of its items, of an object the function from its keys to values.
Null == [t |-> "null", v |-> <<>>]
Str(s) == [t |-> "str", v |-> <<s>>]
Num(n) == [t |-> "num", v |-> <<n>>]
List(items) == [t |-> "list", v |-> items]
Dict(fields) == [t |-> "dict", v |-> fields]

\* an object is built from its keys; a key whose slot is Absent is left out
Absent == [t |-> "absent", v |-> <<>>]
NoFields == [key \in {} |-> Null]
Field(key, slot) == IF slot.t = "absent" THEN NoFields ELSE key :> slot

\* Python: bool(x)
truthy(x) ==
    IF x.t = "null" THEN FALSE
    ELSE IF x.t = "dict" THEN DOMAIN x.v # {}
    ELSE IF x.t = "list" THEN Len(x.v) > 0
    ELSE IF x.t = "str" THEN x.v[1] # ""
    ELSE x.v[1] # 0

\* Python: key in x, for an object x
contains(x, key) == x.t = "dict" /\ key \in DOMAIN x.v

\* Python: x.get(key, default) on the value of r; AttributeError when x is
\* not an object; an exception that r raised goes on
dict_get(r, key, default) ==
    IF r.raised THEN r
    ELSE IF r.value.t # "dict" THEN Raise
    ELSE IF key \in DOMAIN r.value.v THEN Return(r.value.v[key])
    ELSE Return(default)

\* Python: x[0] on the value of r; an exception unless x is a list with an
\* item (x[0] of a string is a string, on which the next .get raises)
first_item(r) ==
    IF r.raised THEN r
    ELSE IF r.value.t = "list" /\ Len(r.value.v) > 0 THEN Return(r.value.v[1])
    ELSE Raise

\* identify.py 22-33: a TrackMatch with the fields the adapters set
TrackFields(title, artist, service, album, url, confidence) ==
    [title |-> title, artist |-> artist, service |-> service,
     album |-> album, url |-> url, confidence |-> confidence]

\* faulty variant: the exception goes on to the caller
except_exception_reraise(r) == r

\* identify.py 76-79, 134-138: except Exception: pass; return None
except_exception(r) == IF r.raised THEN Return(NoMatch) ELSE r

\* identify.py 59-64: the album of a Shazam track
shazam_album(track) ==
    LET sections == dict_get(Return(track), "sections", List(<<>>))  \* 60
    IN  IF sections.raised THEN Raise
        ELSE IF ~truthy(sections.value) THEN Return(Null)            \* 61
        ELSE LET metadata == dict_get(first_item(sections), "metadata",
                                      List(<<>>))                    \* 62
             IN  IF metadata.raised THEN Raise
                 ELSE IF ~truthy(metadata.value) THEN Return(Null)   \* 63
                 ELSE dict_get(first_item(metadata), "text", Null)   \* 64

\* identify.py 55-74: what the body of the try does with the result of
\* shazam.recognize
shazam_read(result) ==
    IF truthy(result) /\ contains(result, "track")                  \* 56
    THEN LET track == result.v["track"]                             \* 57
             album == shazam_album(track)
             title == dict_get(Return(track), "title", Str("Unknown"))
             artist == dict_get(Return(track), "subtitle", Str("Unknown"))
             url == dict_get(Return(track), "url", Null)
         IN  IF album.raised \/ title.raised \/ artist.raised \/ url.raised
             THEN Raise
             ELSE Return(<<TrackFields(title.value, artist.value, "shazam",
                                       album.value, url.value, Null)>>)
    ELSE Return(NoMatch)                                            \* 79

\* identify.py 42-79: identify_shazam, given what Shazam() and
\* shazam.recognize did: `call` is Raise or Return(the response)
identify_shazam_response(call) ==
    except_exception(IF call.raised THEN Raise ELSE shazam_read(call.value))

\* conftest.py 59: the status code of "No result"
NoResultCode == 1001
\* identify.py 102: the status code of a match
MatchCode == 0

\* faulty variant: every status but "No result" counts as a match
status_is_match_unless_no_result(code) ==
    ~(code.t = "num" /\ code.v[1] = NoResultCode)

\* identify.py 102: ... == 0
status_is_match(code) == code.t = "num" /\ code.v[1] = MatchCode

\* identify.py 120: the URL made of the Spotify id
SpotifyUrl(spotify_id) ==
    [t |-> "str", v |-> <<"https://open.spotify.com/track/", spotify_id.v[1]>>]

\* identify.py 105-130: the TrackMatch of the music entry `track` (a value
\* or an exception)
acrcloud_track(track) ==
    LET artists == dict_get(track, "artists", List(<<>>))            \* 108
        artist == IF artists.raised THEN Raise                       \* 109
                  ELSE IF truthy(artists.value)
                       THEN dict_get(first_item(artists), "name", Str("Unknown"))
                       ELSE Return(Str("Unknown"))
        album_info == dict_get(track, "album", Dict(NoFields))       \* 112
        album == IF album_info.raised THEN Raise                     \* 113
                 ELSE IF truthy(album_info.value)
                      THEN dict_get(album_info, "name", Null)
                      ELSE Return(Null)
        external == dict_get(track, "external_metadata", Dict(NoFields))
        spotify == dict_get(external, "spotify", Dict(NoFields))     \* 117
        spotify_track == dict_get(spotify, "track", Dict(NoFields))  \* 118
        spotify_id == dict_get(spotify_track, "id", Null)            \* 119
        url == IF spotify_id.raised THEN Raise                       \* 120
               ELSE IF truthy(spotify_id.value)
                    THEN Return(SpotifyUrl(spotify_id.value))
                    ELSE Return(Null)
        title == dict_get(track, "title", Str("Unknown"))            \* 123
        score == dict_get(track, "score", Null)                      \* 127
    IN  IF artist.raised \/ album.raised \/ url.raised \/ title.raised
           \/ score.raised
        THEN Raise
        ELSE Return(<<TrackFields(title.value, artist.value, "acrcloud",
                                  album.value, url.value, score.value)>>)

\* identify.py 102-130: what the body of the try does with the parsed
\* response
acrcloud_read(result) ==
    LET code == dict_get(dict_get(Return(result), "status", Dict(NoFields)),
                         "code", Null)                               \* 102
        music == dict_get(dict_get(Return(result), "metadata", Dict(NoFields)),
                          "music", List(<<>>))                       \* 103
    IN  IF code.raised THEN Raise
        ELSE IF ~status_is_match(code.value) THEN Return(NoMatch)    \* 138
        ELSE IF music.raised THEN Raise
        ELSE IF ~truthy(music.value) THEN Return(NoMatch)            \* 104
        ELSE acrcloud_track(first_item(music))                       \* 105

\* identify.py 82-138: identify_acrcloud, given the settings and what the
\* recognizer and json.loads did: `call` is Raise or Return(the response)
identify_acrcloud_response(configured, installed, call) ==
    IF ~configured THEN Return(NoMatch)                              \* 92-93
    ELSE IF ~installed THEN Raise                                    \* 96, 132
    ELSE except_exception(IF call.raised THEN Raise
                          ELSE acrcloud_read(call.value))

\* The responses the providers are let give.  A key of an object is
\* "absent", "null" or holds a value of the documented type.
Slot == {"absent", "null", "str"}
slot_value(slot, value) ==
    IF slot = "absent" THEN Absent ELSE IF slot = "null" THEN Null ELSE value

\* track["sections"] down to sections[0]["metadata"][0]["text"]: the first
\* key on the way that is absent, null, an empty list or a list of null
SectionsShape ==
    {"absent", "null", "empty", "item_null", "metadata_absent",
     "metadata_null", "metadata_empty", "metadata_item_null", "text_absent",
     "text_null", "text"}

metadata_value(shape) ==
    CASE shape = "metadata_absent" -> Absent
      [] shape = "metadata_null" -> Null
      [] shape = "metadata_empty" -> List(<<>>)
      [] shape = "metadata_item_null" -> List(<<Null>>)
      [] shape = "text_absent" -> List(<<Dict("title" :> Str("Album"))>>)
      [] shape = "text_null" ->
            List(<<Dict("title" :> Str("Album") @@ "text" :> Null)>>)
      [] OTHER ->
            List(<<Dict("title" :> Str("Album") @@ "text" :> Str("Rumours"))>>)

sections_value(shape) ==
    CASE shape = "absent" -> Absent
      [] shape = "null" -> Null
      [] shape = "empty" -> List(<<>>)
      [] shape = "item_null" -> List(<<Null>>)
      [] OTHER ->
            List(<<Dict("type" :> Str("SONG")
                        @@ Field("metadata", metadata_value(shape)))>>)

\* what Shazam() and shazam.recognize do: an exception, None, {}, an object
\* without "track", or an object with "track": null, a string or an object
ShazamDefault ==
    [call |-> "track", track |-> "dict", title |-> "str", subtitle |-> "str",
     url |-> "str", sections |-> "text"]
ShazamShapes ==
    {[ShazamDefault EXCEPT !.call = c] : c \in {"exception", "none", "empty", "notrack"}}
    \cup {[ShazamDefault EXCEPT !.track = t] : t \in {"null", "str"}}
    \cup [call : {"track"}, track : {"dict"}, title : Slot, subtitle : Slot,
          url : Slot, sections : SectionsShape]

shazam_track(shape) ==
    CASE shape.track = "null" -> Null
      [] shape.track = "str" -> Str("Dreams")
      [] OTHER ->
            Dict(Field("title", slot_value(shape.title, Str("Dreams")))
                 @@ Field("subtitle", slot_value(shape.subtitle, Str("Fleetwood Mac")))
                 @@ Field("url", slot_value(shape.url, Str("https://www.shazam.com/track/123456")))
                 @@ Field("sections", sections_value(shape.sections))
                 @@ "key" :> Str("123456"))

shazam_call(shape) ==
    CASE shape.call = "exception" -> Raise
      [] shape.call = "none" -> Return(Null)
      [] shape.call = "empty" -> Return(Dict(NoFields))
      [] shape.call = "notrack" -> Return(Dict("matches" :> List(<<>>)))
      [] OTHER -> Return(Dict("matches" :> List(<<>>)
                              @@ "track" :> shazam_track(shape)))

\* what the recognizer and json.loads do: an exception, or a response of
\* which every key on the way to a field is absent, null or as documented
StatusCodes == {MatchCode, NoResultCode, NoResultCode + 1}
StatusShape == {"absent", "null", "code_absent", "code_null", "code"}
MusicShape ==
    {"metadata_absent", "metadata_null", "music_absent", "music_null",
     "music_empty", "item_null", "item"}
ArtistsShape ==
    {"absent", "null", "empty", "item_null", "name_absent", "name_null", "name"}
AlbumShape == {"absent", "null", "empty", "name_absent", "name_null", "name"}
ExternalShape ==
    {"absent", "null", "spotify_absent", "spotify_null", "track_absent",
     "track_null", "id_absent", "id_null", "id"}

AcrcloudDefault ==
    [call |-> "json", status |-> "code", code |-> MatchCode, music |-> "item",
     title |-> "str", artists |-> "name", album |-> "name", external |-> "id",
     score |-> "str"]
AcrcloudShapes ==
    {[AcrcloudDefault EXCEPT !.call = "exception"]}
    \cup {[AcrcloudDefault EXCEPT !.status = st] : st \in StatusShape \ {"code"}}
    \cup {[AcrcloudDefault EXCEPT !.code = c] : c \in StatusCodes}
    \cup {[AcrcloudDefault EXCEPT !.music = m] : m \in MusicShape}
    \cup [call : {"json"}, status : {"code"}, code : {MatchCode},
          music : {"item"}, title : Slot, artists : ArtistsShape,
          album : AlbumShape, external : ExternalShape, score : Slot]

status_value(shape) ==
    CASE shape.status = "absent" -> Absent
      [] shape.status = "null" -> Null
      [] shape.status = "code_absent" -> Dict("msg" :> Str("Success"))
      [] shape.status = "code_null" -> Dict("msg" :> Str("Success") @@ "code" :> Null)
      [] OTHER -> Dict("msg" :> Str("Success") @@ "code" :> Num(shape.code))

artists_value(shape) ==
    CASE shape = "absent" -> Absent
      [] shape = "null" -> Null
      [] shape = "empty" -> List(<<>>)
      [] shape = "item_null" -> List(<<Null>>)
      [] shape = "name_absent" -> List(<<Dict("id" :> Str("a1"))>>)
      [] shape = "name_null" -> List(<<Dict("id" :> Str("a1") @@ "name" :> Null)>>)
      [] OTHER ->
            List(<<Dict("id" :> Str("a1") @@ "name" :> Str("Fleetwood Mac"))>>)

album_value(shape) ==
    CASE shape = "absent" -> Absent
      [] shape = "null" -> Null
      [] shape = "empty" -> Dict(NoFields)
      [] shape = "name_absent" -> Dict("id" :> Str("b1"))
      [] shape = "name_null" -> Dict("id" :> Str("b1") @@ "name" :> Null)
      [] OTHER -> Dict("id" :> Str("b1") @@ "name" :> Str("Rumours"))

external_value(shape) ==
    CASE shape = "absent" -> Absent
      [] shape = "null" -> Null
      [] shape = "spotify_absent" -> Dict("deezer" :> Dict(NoFields))
      [] shape = "spotify_null" -> Dict("spotify" :> Null)
      [] shape = "track_absent" -> Dict("spotify" :> Dict("album" :> Dict(NoFields)))
      [] shape = "track_null" -> Dict("spotify" :> Dict("track" :> Null))
      [] shape = "id_absent" ->
            Dict("spotify" :> Dict("track" :> Dict("name" :> Str("Dreams"))))
      [] shape = "id_null" ->
            Dict("spotify" :> Dict("track" :> Dict("id" :> Null)))
      [] OTHER ->
            Dict("spotify" :> Dict("track" :> Dict("id" :> Str("spotify123"))))

acrcloud_music_entry(shape) ==
    Dict(Field("title", slot_value(shape.title, Str("Dreams")))
         @@ Field("artists", artists_value(shape.artists))
         @@ Field("album", album_value(shape.album))
         @@ Field("external_metadata", external_value(shape.external))
         @@ Field("score", slot_value(shape.score, Num(95)))
         @@ "acrid" :> Str("abc"))

music_value(shape) ==
    CASE shape.music = "music_absent" -> Dict("timestamp_utc" :> Str("now"))
      [] shape.music = "music_null" -> Dict("music" :> Null)
      [] shape.music = "music_empty" -> Dict("music" :> List(<<>>))
      [] shape.music = "item_null" -> Dict("music" :> List(<<Null>>))
      [] OTHER -> Dict("music" :> List(<<acrcloud_music_entry(shape)>>))

metadata_slot(shape) ==
    CASE shape.music = "metadata_absent" -> Absent
      [] shape.music = "metadata_null" -> Null
      [] OTHER -> music_value(shape)

acrcloud_call(shape) ==
    IF shape.call = "exception" THEN Raise
    ELSE Return(Dict(Field("status", status_value(shape))
                     @@ Field("metadata", metadata_slot(shape))
                     @@ "result_type" :> Num(0)))

(***************************************************************************)
(* identify.py: identify_multiple                                          *)
(***************************************************************************)
\* a TrackMatch that identify_track returned for the file `audio`, with the
\* fields identify_multiple reads
TitledMatch(artist, title, service, audio) ==
    [artist |-> artist, title |-> title, service |-> service, audio |-> audio]

\* faulty variant: the case is kept
str_lower_keep_case(name) == name

\* Python: str.lower, on the names the providers are let return
str_lower(name) ==
    CASE name \in {"Abba", "ABBA"} -> "abba"
      [] name \in {"Dreams", "DREAMS"} -> "dreams"
      [] name = "Go" -> "go"
      [] OTHER -> name

\* what the loop of identify_multiple holds: seen, matches and whether an
\* exception was raised
Deduped(raised, seen, found) == [raised |-> raised, seen |-> seen, matches |-> found]

\* identify.py 198-202: the loop over the matches of one file, from the
\* n-th match on.  .lower() of a title or artist that is None raises
\* AttributeError.
RECURSIVE dedupe(_, _, _)
dedupe(results, n, acc) ==
    IF acc.raised \/ n > Len(results) THEN acc
    ELSE LET match == results[n]
         IN  IF match.artist.t # "str" \/ match.title.t # "str"      \* 199
             THEN Deduped(TRUE, acc.seen, acc.matches)
             ELSE LET key == <<str_lower(match.artist.v[1]),
                               str_lower(match.title.v[1])>>         \* 199
                  IN  dedupe(results, n + 1,
                             IF key \in acc.seen                    \* 200
                             THEN acc
                             ELSE Deduped(FALSE, acc.seen \cup {key},  \* 201
                                          Append(acc.matches, match))) \* 202

(***************************************************************************)
(* utils.py: parse_time, format_time, format_time_padded                   *)
(* A string is the sequence of its characters.                             *)
(***************************************************************************)
DigitChars == <<"0", "1", "2", "3", "4", "5", "6", "7", "8", "9">>

\* Python: str(n) for n >= 0
RECURSIVE str_of_int(_)
str_of_int(n) ==
    IF n < 10 THEN <<DigitChars[n + 1]>>
    ELSE str_of_int(n \div 10) \o <<DigitChars[(n % 10) + 1]>>

\* Python: f"{n:02d}" for n >= 0
zero_padded(n) == IF n < 10 THEN <<"0">> \o str_of_int(n) ELSE str_of_int(n)

\* Python: str.isdigit
isdigit(text) ==
    text # <<>> /\ \A n \in 1..Len(text) : text[n] \in Range(DigitChars)

\* Python: int(text) of a string of digits
RECURSIVE int_of_str(_)
int_of_str(text) ==
    IF text = <<>> THEN 0
    ELSE 10 * int_of_str(SubSeq(text, 1, Len(text) - 1))
         + (CHOOSE d \in 0..9 : DigitChars[d + 1] = text[Len(text)])

\* Python: text.split(":")
RECURSIVE split(_)
split(text) ==
    IF \A n \in 1..Len(text) : text[n] # ":" THEN <<text>>
    ELSE LET colon == CHOOSE n \in 1..Len(text) :
                         text[n] = ":" /\ \A m \in 1..(n - 1) : text[m] # ":"
         IN  <<SubSeq(text, 1, colon - 1)>> \o split(SubSeq(text, colon + 1, Len(text)))

\* what parse_time gives: the seconds, or ValueError
Seconds(value) == [raised |-> FALSE, value |-> value]
ValueError == [raised |-> TRUE, value |-> 0]

\* utils.py 7-48; the strings of the model hold digits and colons only, so
\* strip (24) changes nothing and int() of a part fails exactly when the
\* part is not a string of digits
parse_time(time_str) ==
    IF isdigit(time_str) THEN Seconds(int_of_str(time_str))         \* 27-28
    ELSE LET parts == split(time_str)                                \* 30
         IN  IF \E n \in 1..Len(parts) : ~isdigit(parts[n])
             THEN ValueError                                         \* 37, 45, 48
             ELSE CASE Len(parts) = 2 ->                             \* 32-35
                         Seconds(int_of_str(parts[1]) * 60 + int_of_str(parts[2]))
                    [] Len(parts) = 3 ->                             \* 39-43
                         Seconds(int_of_str(parts[1]) * 3600
                                 + int_of_str(parts[2]) * 60 + int_of_str(parts[3]))
                    [] OTHER -> ValueError                           \* 48

\* faulty variant: the hours are left out
format_time_without_hours(seconds, always_include_hours) ==
    LET minutes == (seconds % 3600) \div 60
        secs == seconds % 60
    IN  str_of_int(minutes) \o <<":">> \o zero_padded(secs)

\* utils.py 51-70 for seconds >= 0
format_time(seconds, always_include_hours) ==
    LET hours == seconds \div 3600                                   \* 64
        minutes == (seconds % 3600) \div 60                          \* 65
        secs == seconds % 60                                         \* 66
    IN  IF hours > 0 \/ always_include_hours                         \* 68-69
        THEN str_of_int(hours) \o <<":">> \o zero_padded(minutes)
             \o <<":">> \o zero_padded(secs)
        ELSE str_of_int(minutes) \o <<":">> \o zero_padded(secs)     \* 70

\* utils.py 73-79
format_time_padded(seconds) ==
    LET hours == seconds \div 3600
        minutes == (seconds % 3600) \div 60
        secs == seconds % 60
    IN  zero_padded(hours) \o <<":">> \o zero_padded(minutes)
        \o <<":">> \o zero_padded(secs)

(***************************************************************************)
(* config.py: Settings                                                     *)
(***************************************************************************)
\* config.py 15-17: the credentials; a value that is not set is ""
Settings(access_key, access_secret) ==
    [acrcloud_access_key |-> access_key, acrcloud_access_secret |-> access_secret]

NoCredentials == Settings("", "")

AllSettings ==
    {Settings(access_key, access_secret) :
        access_key \in {"", "key"}, access_secret \in {"", "secret"}}

\* faulty variant: the key alone counts as credentials
Settings_acrcloud_configured_key_only(self) == self.acrcloud_access_key # ""

\* config.py 45-48: bool(self.acrcloud_access_key and
\* self.acrcloud_access_secret)
Settings_acrcloud_configured(self) ==
    self.acrcloud_access_key # "" /\ self.acrcloud_access_secret # ""

(***************************************************************************)
(* cli.py: identify, the checks of the arguments                           *)
(***************************************************************************)
\* faulty variant: a URL is taken without a timestamp
time_missing_ignored(source, timestamp) == FALSE

\* cli.py 170: is_url(source) and timestamp is None; None is written -1
time_missing(source, timestamp) == source = "url" /\ timestamp = 0 - 1

(***************************************************************************)
(* State                                                                   *)
(***************************************************************************)
VARIABLES
    entry,                \* the function called from outside
    source,               \* cli identify: "url", "local" (exists), "missing"
    service,              \* cli identify: --service
    keep_files,           \* cli identify: --keep-files
    output_dir,           \* cli identify: whether --output-dir is given
    timestamp,            \* seconds, or NoTime (None)
    num_chunks,           \* chunks / num_chunks argument
    services,             \* the services list passed on
    settings,             \* config.py: the credentials of the settings
    acrcloud_configured,  \* settings.acrcloud_configured
    acrcloud_installed,   \* whether acrcloud.recognizer can be imported
    pc,                   \* position of the control flow
    callee,               \* the cli.py / identify.py function being run
    boundaries,           \* identify_with_chunks: boundaries; planner result
    span,                 \* (start_sec, end_sec) of get_total_duration_for_chunks
    i,                    \* identify_with_chunks: index of the current chunk
    svcs,                 \* identify_track: services after lines 155-156
    k,                    \* identify_track: position in svcs (1-based)
    matches,              \* identify_track: matches
    result,               \* Optional[TrackMatch] returned by the orchestrator
    exit_code,            \* cli: exit status, NoExit while running
    temp_dir,             \* cli: "none", "created" (mkdtemp) or "removed"
    audio_path,           \* cli: the file the command works on
    events,               \* history: every extraction and provider call
    regions,              \* history: what each finished region yielded
    provider_outcome,     \* history: what the provider did in the latest call
    total_duration,       \* chop_into_chunks: get_duration(audio_path), seconds
    chunk_duration,       \* chop_into_chunks: chunk_duration
    disk,                 \* chop_into_chunks: chunk file j of output_dir is disk[j+1]
    run,                  \* chop_into_chunks: calls made so far
    chunks,               \* chop_into_chunks: chunks, (i, start) of each path
    prev,                 \* history: how the call before the current one ended
    dest_dir,             \* download_audio: the files on the destination stem
    tool,                 \* download_audio: what yt-dlp did
    tool_files,           \* history: dest_dir as yt-dlp left it
    download,             \* download_audio: what the call did
    shape,                \* adapters: the shape of the provider's response
    adapter,              \* adapters: what the adapter returned or raised
    audio_paths,          \* identify_multiple: the number of audio paths
    seen,                 \* identify_multiple: seen
    seconds,              \* format_time, format_time_padded: seconds
    time_format,          \* the formatting function that is called
    time                  \* cli: --time, the string parse_time is given

vars == <<entry, source, service, keep_files, output_dir, timestamp,
          num_chunks, services, temp_dir, audio_path,
          settings, acrcloud_configured, acrcloud_installed, pc, callee,
          boundaries,
          span, i, svcs, k, matches, result, exit_code, events, regions,
          provider_outcome, total_duration, chunk_duration, disk, run, chunks,
          prev, dest_dir, tool, tool_files, download, shape, adapter,
          audio_paths, seen, seconds, time_format, time>>

\* the state of chop_into_chunks
chopVars == <<total_duration, chunk_duration, disk, run, chunks, prev>>

\* what the command and the functions under it leave alone
\* the state of download_audio
downloadVars == <<dest_dir, tool, tool_files, download>>

\* the state of a direct call of an adapter
adapterVars == <<shape, adapter>>

\* the state of identify_multiple
multipleVars == <<audio_paths, seen>>

\* the state of a formatting and parsing of a time
timeVars == <<seconds, time_format, time>>

\* the arguments and the settings of a call
commandVars == <<entry, source, service, keep_files, output_dir, timestamp,
                 settings, acrcloud_configured, acrcloud_installed, chopVars,
                 adapterVars, multipleVars, timeVars>>

inputVars == <<commandVars, downloadVars>>

\* what only the command changes
cliVars == <<inputVars, temp_dir, audio_path>>

NoTime == 0 - 1
NoExit == 0 - 1

\* cli.py 208-211, 223: the file the command works on is the clip that was
\* downloaded ("clip") or the local file as it is ("local"); `start` is the
\* second of the recording at which the file begins
AudioPath(kind, start) == [kind |-> kind, start |-> start]
NoAudio == AudioPath("none", 0)

\* timestamps the orchestrator is run with: one below the lead-in of chunk 0
\* (start clamped to 0) and one above it
ScanTimestamps == {0, MaxTimestamp}

\* no call of chop_into_chunks was made
NoRun == [completed |-> FALSE, chunks |-> <<>>, disk |-> <<>>, calls |-> 0]

ChopIdle ==
    /\ total_duration = 0 /\ chunk_duration = default_chunk_duration
    /\ disk = <<>> /\ run = 0 /\ chunks = <<>> /\ prev = NoRun

\* no call of download_audio was made
NoTool == Tool("none", 0)
NoDownload == Download("pending", "", 0, <<>>, <<>>, EmptyDirectory)

DownloadIdle ==
    /\ dest_dir = EmptyDirectory /\ tool = NoTool
    /\ tool_files = EmptyDirectory /\ download = NoDownload

\* no adapter was called with a response
AdapterIdle == shape = ShazamDefault /\ adapter = Return(NoMatch)

\* identify_multiple was not called
MultipleIdle == audio_paths = 0 /\ seen = {}

\* no time was formatted or parsed
TimeIdle == seconds = 0 /\ time_format = "none" /\ time = <<>>

ServiceLists == {NONE} \cup UNION {[1..m -> Service] : m \in 0..MaxServices}

(***************************************************************************)
(* cli.py: identify (command)                                              *)
(***************************************************************************)
\* faulty variant: the directory is left behind
CleanupNever == UNCHANGED temp_dir

\* cli.py 239-242: the finally block of the command
Cleanup ==
    temp_dir' = IF temp_dir # "none" /\ ~keep_files THEN "removed" ELSE temp_dir

\* cli.py 163-198: validation, the services to use, the working directory
IdentifyCommand ==
    /\ pc = "call" /\ entry = "identify"
    /\ num_chunks' = Max(1, Min(5, num_chunks))                  \* 164
    /\ IF time_missing(source, timestamp)                       \* 170-173
       THEN /\ exit_code' = 1 /\ pc' = "exit"
            /\ UNCHANGED <<services, temp_dir>>
       ELSE /\ services' = cli_services(service, acrcloud_configured)
            /\ IF services' = <<>>                               \* 183-185
               THEN exit_code' = 1 /\ pc' = "exit" /\ UNCHANGED temp_dir
               ELSE /\ pc' = "acquire" /\ UNCHANGED exit_code
                    /\ temp_dir' = IF output_dir \/ keep_files  \* 188-198
                                   THEN "none" ELSE "created"
    /\ UNCHANGED <<inputVars, audio_path, provider_outcome, callee, boundaries,
                   span, i, svcs, k, matches, result, events, regions>>

\* the files yt-dlp leaves on the destination of the command: none, the
\* .mp3 it was asked for, or the audio in the container of the site
ClipCandidates ==
    {c \in [1..Len(CandidateExts) -> {"absent", "data"}] :
        \A e \in 3..Len(CandidateExts) : c[e] = "absent"}

\* cli.py 200-234, 239-242: the download or the local file, and the function
\* chosen; typer.Exit and the exceptions download_audio lets through leave
\* through the finally block
IdentifyAcquire ==
    /\ pc = "acquire"
    /\ \/ /\ source = "url"                                      \* 202-220
          /\ \E outcome \in ToolOutcome, cand \in ClipCandidates,
                conv \in ConvertOutcome :
               LET d == download_audio(Tool(outcome, 0),           \* 211
                                       Directory(cand, <<>>), conv)
               IN  /\ tool' = Tool(outcome, 0)
                   /\ tool_files' = Directory(cand, <<>>)
                   /\ download' = d
                   /\ dest_dir' = d.dir
                   /\ IF d.raised = "none"
                      THEN /\ audio_path' = AudioPath("clip",      \* 204, 211
                                  get_total_duration_for_chunks(timestamp,
                                                                num_chunks)[1])
                           /\ callee' = "identify_with_chunks"
                           /\ pc' = "enter"
                           /\ UNCHANGED <<exit_code, temp_dir>>
                      ELSE /\ exit_code' = 1 /\ pc' = "exit"       \* 213-215
                           /\ Cleanup
                           /\ UNCHANGED <<callee, audio_path>>
       \/ /\ source = "missing"                                  \* 224-226
          /\ exit_code' = 1 /\ pc' = "exit"
          /\ Cleanup
          /\ UNCHANGED <<callee, audio_path, downloadVars>>
       \/ /\ source = "local"                                    \* 228-234
          /\ audio_path' = AudioPath("local", 0)                  \* 223
          /\ callee' = IF timestamp # NoTime /\ num_chunks > 1
                       THEN "identify_with_chunks" ELSE "identify_single"
          /\ pc' = "enter"
          /\ UNCHANGED <<exit_code, temp_dir, downloadVars>>
    /\ UNCHANGED <<commandVars, provider_outcome, num_chunks, services,
                   boundaries, span, i, svcs, k, matches, result, events,
                   regions>>

\* cli.py 236-242: the result is printed, the finally block runs, the
\* command ends
IdentifyPrint ==
    /\ pc = "returned" /\ entry = "identify"
    /\ exit_code' = 0 /\ pc' = "exit"
    /\ Cleanup
    /\ UNCHANGED <<inputVars, audio_path, provider_outcome, num_chunks, services,
                   callee, boundaries, span, i, svcs, k, matches, result,
                   events, regions>>

\* cli.py 239-242: an exception of the called function passes through the
\* finally block and ends the command with status 1
IdentifyRaised ==
    /\ pc = "raised" /\ entry = "identify"
    /\ exit_code' = 1 /\ pc' = "exit"
    /\ Cleanup
    /\ UNCHANGED <<inputVars, audio_path, provider_outcome, num_chunks, services,
                   callee, boundaries, span, i, svcs, k, matches, result,
                   events, regions>>

\* a call of identify_with_chunks, identify_single, identify_track or
\* identify_acrcloud from outside the command
DirectCall ==
    /\ pc = "call" /\ entry # "identify"
    /\ callee' = entry /\ pc' = "enter"
    /\ UNCHANGED <<cliVars, provider_outcome, num_chunks, services, boundaries, span, i, svcs,
                   k, matches, result, exit_code, events, regions>>

(***************************************************************************)
(* cli.py: identify_with_chunks, identify_single                           *)
(***************************************************************************)
\* cli.py 261-270
EnterIdentifyWithChunks ==
    /\ pc = "enter" /\ callee = "identify_with_chunks"
    /\ boundaries' = calculate_chunk_boundaries(timestamp, num_chunks)
    /\ span' = get_total_duration_for_chunks(timestamp, num_chunks)
    /\ i' = 0
    /\ pc' = "scan"
    /\ UNCHANGED <<cliVars, provider_outcome, num_chunks, services, callee, svcs, k, matches,
                   result, exit_code, events, regions>>

\* run_identify(audio, services): identify_track starts (identify.py 155-158)
StartIdentifyTrack ==
    /\ svcs' = effective_services(services)
    /\ k' = 1
    /\ matches' = <<>>
    /\ pc' = "identify"

\* faulty variant: a chunk is skipped
NextChunkSkip ==
    /\ i' = i + 2
    /\ IF i + 2 < Len(boundaries)
       THEN pc' = "scan" /\ UNCHANGED result
       ELSE pc' = "returned" /\ result' = NoMatch

\* the for loop of identify_with_chunks moves to the next chunk, or ends
\* (cli.py 272, 296)
NextChunk ==
    /\ i' = i + 1
    /\ IF i + 1 < Len(boundaries)
       THEN pc' = "scan" /\ UNCHANGED result
       ELSE pc' = "returned" /\ result' = NoMatch

\* history: an adapter call for chunk `chunk` and how it ended: "match",
\* "none" (None returned) or "raise"
Call(op, chunk, outcome) ==
    [op |-> op, chunk |-> chunk, outcome |-> outcome, args |-> <<>>]

\* history: extract_segment(audio_path, chunk_path, start, duration) for
\* chunk `chunk` and how it ended
Extraction(chunk, outcome, start, duration) ==
    [op |-> "extract", chunk |-> chunk, outcome |-> outcome,
     args |-> <<start, duration>>]

\* the summary of a finished region
Region(chunk, extracted, found) ==
    [chunk |-> chunk, extracted |-> extracted, matches |-> found]

\* faulty variant: ProcessingError is not caught
ExtractSegmentFatal ==
    /\ pc = "scan" /\ i < Len(boundaries)
    /\ LET relative_start == boundaries[i + 1][1] - span[1]
           duration == boundaries[i + 1][2] - boundaries[i + 1][1]
           Extracted(outcome) ==
               events' = Append(events, Extraction(i, outcome, relative_start, duration))
       IN  \/ /\ Extracted("raise")
              /\ regions' = Append(regions, Region(i, "raise", <<>>))
              /\ pc' = "raised"
              /\ UNCHANGED <<i, result, svcs, k, matches>>
           \/ /\ Extracted("empty")
              /\ regions' = Append(regions, Region(i, "empty", <<>>))
              /\ NextChunk
              /\ UNCHANGED <<svcs, k, matches>>
           \/ /\ Extracted("ok")
              /\ StartIdentifyTrack
              /\ UNCHANGED <<i, result, regions>>
    /\ UNCHANGED <<cliVars, provider_outcome, num_chunks, services, callee, boundaries, span,
                   exit_code>>

\* cli.py 272-288: one chunk is cut; extract_segment (audio.py 201-255)
\* raises ProcessingError, leaves an empty file, or leaves a usable file
ExtractSegment ==
    /\ pc = "scan" /\ i < Len(boundaries)
    /\ LET relative_start == boundaries[i + 1][1] - span[1]          \* 274
           duration == boundaries[i + 1][2] - boundaries[i + 1][1]   \* 275
           Extracted(outcome) ==
               events' = Append(events, Extraction(i, outcome, relative_start, duration))
       IN  \/ /\ Extracted("raise")                       \* 279-283
              /\ regions' = Append(regions, Region(i, "raise", <<>>))
              /\ NextChunk
              /\ UNCHANGED <<svcs, k, matches>>
           \/ /\ Extracted("empty")                       \* 285-286
              /\ regions' = Append(regions, Region(i, "empty", <<>>))
              /\ NextChunk
              /\ UNCHANGED <<svcs, k, matches>>
           \/ /\ Extracted("ok")                          \* 288
              /\ StartIdentifyTrack
              /\ UNCHANGED <<i, result, regions>>
    /\ UNCHANGED <<cliVars, provider_outcome, num_chunks, services, callee, boundaries, span,
                   exit_code>>

\* cli.py 245-249 (identify_single) and a direct call of identify_track:
\* the whole file is submitted
EnterIdentifySingle ==
    /\ pc = "enter" /\ callee \in {"identify_single", "identify_track"}
    /\ i' = 0
    /\ StartIdentifyTrack
    /\ UNCHANGED <<cliVars, provider_outcome, num_chunks, services, callee, boundaries, span,
                   result, exit_code, events, regions>>

(***************************************************************************)
(* identify.py: identify_track                                             *)
(***************************************************************************)
\* acrcloud: the recognizer is imported before the call; when the import
\* fails there is no provider call
AcrcloudOutcome == IF acrcloud_installed THEN ProviderOutcome ELSE {"ImportError"}

\* how the adapter call `r` ended, for the history
Ended(r) == IF r.raised THEN "raise" ELSE IF r.value = NoMatch THEN "none" ELSE "match"

\* faulty variant: the loop ends at the first match
AfterCallShortCircuit(r) ==
    IF r.raised
    THEN pc' = "raised" /\ UNCHANGED <<k, matches>>
    ELSE /\ matches' = matches \o r.value
         /\ k' = IF r.value # NoMatch THEN Len(svcs) + 1 ELSE k + 1
         /\ UNCHANGED pc

\* the effect of one adapter call `r` on the loop of identify_track
AfterCall(r) ==
    IF r.raised
    THEN pc' = "raised" /\ UNCHANGED <<k, matches>>
    ELSE /\ matches' = matches \o r.value                       \* 163-164, 169-170
         /\ k' = k + 1
         /\ UNCHANGED pc

\* identify.py 161-164
CallShazam ==
    /\ pc = "identify" /\ k <= Len(svcs) /\ svcs[k] = "shazam"
    /\ \E outcome \in ProviderOutcome :
         LET r == identify_shazam(outcome, i)
         IN  /\ events' = Append(events, Call("shazam", i, Ended(r)))
             /\ provider_outcome' = outcome
             /\ AfterCall(r)
    /\ UNCHANGED <<cliVars, num_chunks, services, callee, boundaries, span,
                   i, svcs, result, exit_code, regions>>

\* identify.py 166-170
CallAcrcloud ==
    /\ pc = "identify" /\ k <= Len(svcs) /\ svcs[k] = "acrcloud"
    /\ IF acrcloud_configured                                    \* 167
       THEN \E outcome \in AcrcloudOutcome :
                 LET r == identify_acrcloud(acrcloud_configured,
                                            acrcloud_installed, outcome, i)
                 IN  /\ events' = Append(events, Call("acrcloud", i, Ended(r)))
                     /\ provider_outcome' = outcome
                     /\ AfterCall(r)
       ELSE /\ k' = k + 1
            /\ UNCHANGED <<events, matches, pc, provider_outcome>>
    /\ UNCHANGED <<cliVars, num_chunks, services, callee, boundaries, span,
                   i, svcs, result, exit_code, regions>>

\* faulty variant: the recognizer is used whatever the settings
acrcloud_steps_unguarded(configured, installed) ==
    IF ~installed THEN <<Call("import", 0, "raise")>>
    ELSE <<Call("import", 0, "ok"), Call("ACRCloudRecognizer", 0, "ok"),
           Call("recognize_by_file", 0, "ok")>>

\* identify.py 92-100: what identify_acrcloud does on its way to the
\* response: the import of the recognizer (96), its construction (98), the
\* recognition call (99)
acrcloud_steps(configured, installed) ==
    IF ~configured THEN <<>>                                      \* 92-93
    ELSE IF ~installed THEN <<Call("import", 0, "raise")>>        \* 96
    ELSE <<Call("import", 0, "ok"), Call("ACRCloudRecognizer", 0, "ok"),
           Call("recognize_by_file", 0, "ok")>>

\* identify.py 82-138: identify_acrcloud called from outside identify_track
DirectAcrcloud ==
    /\ pc = "enter" /\ callee = "identify_acrcloud"
    /\ \E outcome \in IF acrcloud_configured THEN AcrcloudOutcome ELSE {"none"} :
         LET r == identify_acrcloud(acrcloud_configured, acrcloud_installed,
                                    outcome, 0)
         IN  /\ events' = events \o acrcloud_steps(acrcloud_configured,
                                                    acrcloud_installed)
             /\ provider_outcome' = outcome
             /\ result' = r.value
             /\ pc' = IF r.raised THEN "raised" ELSE "returned"
    /\ UNCHANGED <<cliVars, num_chunks, services, callee, boundaries, span,
                   i, svcs, k, matches, exit_code, regions>>

\* faulty variant: the scan goes on after a match and reports the last one
IdentifyTrackReturnNoStop ==
    /\ pc = "identify" /\ k > Len(svcs)
    /\ regions' = Append(regions, Region(i, "ok", matches))
    /\ CASE callee = "identify_with_chunks" ->
              /\ i' = i + 1
              /\ result' = IF matches # <<>> THEN <<matches[1]>> ELSE result
              /\ pc' = IF i + 1 < Len(boundaries) THEN "scan" ELSE "returned"
         [] callee = "identify_track" -> pc' = "returned" /\ UNCHANGED <<i, result>>
         [] OTHER ->
              /\ result' = IF matches # <<>> THEN <<matches[1]>> ELSE NoMatch
              /\ pc' = "returned"
              /\ UNCHANGED i
    /\ UNCHANGED <<cliVars, provider_outcome, num_chunks, services, callee, boundaries, span,
                   svcs, k, matches, exit_code, events>>

\* faulty variant: the last match of the list is reported
IdentifyTrackReturnLast ==
    /\ pc = "identify" /\ k > Len(svcs)
    /\ regions' = Append(regions, Region(i, "ok", matches))
    /\ CASE callee = "identify_with_chunks" /\ matches = <<>> -> NextChunk
         [] callee = "identify_track" -> pc' = "returned" /\ UNCHANGED <<i, result>>
         [] OTHER ->
              /\ result' = IF matches # <<>> THEN <<matches[Len(matches)]>> ELSE NoMatch
              /\ pc' = "returned"
              /\ UNCHANGED i
    /\ UNCHANGED <<cliVars, provider_outcome, num_chunks, services, callee, boundaries, span,
                   svcs, k, matches, exit_code, events>>

\* identify.py 172: identify_track returns matches; the caller goes on:
\* cli.py 290-296 (identify_with_chunks), cli.py 250 (identify_single)
IdentifyTrackReturn ==
    /\ pc = "identify" /\ k > Len(svcs)
    /\ regions' = Append(regions, Region(i, "ok", matches))
    /\ CASE callee = "identify_with_chunks" /\ matches = <<>> ->
              NextChunk                                            \* 293-294
         [] callee = "identify_track" ->
              pc' = "returned" /\ UNCHANGED <<i, result>>          \* 172
         [] OTHER ->                                               \* 290-292, 250
              /\ result' = IF matches # <<>> THEN <<matches[1]>> ELSE NoMatch
              /\ pc' = "returned"
              /\ UNCHANGED i
    /\ UNCHANGED <<cliVars, provider_outcome, num_chunks, services, callee, boundaries, span,
                   svcs, k, matches, exit_code, events>>

(***************************************************************************)
(* Specification of the orchestration                                      *)
(***************************************************************************)
Entries ==
    {"identify", "identify_with_chunks", "identify_single", "identify_track",
     "identify_acrcloud"}

Init ==
    /\ entry \in Entries
    /\ settings \in AllSettings
    /\ acrcloud_configured = Settings_acrcloud_configured(settings)
    /\ acrcloud_installed \in BOOLEAN
    /\ source \in IF entry = "identify" THEN {"url", "local", "missing"} ELSE {"local"}
    /\ service \in IF entry = "identify" THEN Service ELSE {"all"}
    /\ keep_files \in IF entry = "identify" THEN BOOLEAN ELSE {FALSE}
    /\ output_dir \in IF entry = "identify" THEN BOOLEAN ELSE {FALSE}
    /\ temp_dir = "none"
    /\ audio_path = NoAudio
    /\ services \in IF entry \in {"identify", "identify_acrcloud"}
                    THEN {<<>>} ELSE ServiceLists
    /\ timestamp \in CASE entry = "identify" -> {NoTime} \cup ScanTimestamps
                       [] entry = "identify_with_chunks" -> ScanTimestamps
                       [] OTHER -> {NoTime}
    /\ num_chunks \in IF entry \in {"identify", "identify_with_chunks"}
                      THEN 0..MaxScanChunks ELSE {1}
    /\ pc = "call"
    /\ callee = "none"
    /\ boundaries = <<>>
    /\ span = <<>>
    /\ i = 0
    /\ svcs = <<>>
    /\ k = 1
    /\ matches = <<>>
    /\ result = NoMatch
    /\ exit_code = NoExit
    /\ events = <<>>
    /\ regions = <<>>
    /\ provider_outcome = "none"
    /\ ChopIdle
    /\ DownloadIdle
    /\ AdapterIdle
    /\ MultipleIdle
    /\ TimeIdle

Next ==
    \/ IdentifyCommand
    \/ IdentifyAcquire
    \/ IdentifyPrint
    \/ IdentifyRaised
    \/ DirectCall
    \/ EnterIdentifyWithChunks
    \/ ExtractSegment
    \/ EnterIdentifySingle
    \/ CallShazam
    \/ CallAcrcloud
    \/ DirectAcrcloud
    \/ IdentifyTrackReturn

Spec == Init /\ [][Next]_vars

(***************************************************************************)
(* Specification of the planner: calculate_chunk_boundaries and            *)
(* get_total_duration_for_chunks applied to every timestamp and every      *)
(* num_chunks of the bounded ranges                                        *)
(***************************************************************************)
InitPlan ==
    /\ entry = "plan"
    /\ timestamp \in 0..MaxTimestamp
    /\ num_chunks \in (0 - NegNumChunks)..MaxNumChunks
    /\ pc = "plan"
    /\ boundaries = <<>>
    /\ span = <<>>
    /\ source = "local" /\ service = "all" /\ services = <<>>
    /\ keep_files = FALSE /\ output_dir = FALSE /\ temp_dir = "none"
    /\ audio_path = NoAudio
    /\ settings = NoCredentials
    /\ acrcloud_configured = FALSE /\ acrcloud_installed = FALSE
    /\ callee = "none" /\ i = 0 /\ svcs = <<>> /\ k = 1 /\ matches = <<>>
    /\ result = NoMatch /\ exit_code = NoExit /\ events = <<>> /\ regions = <<>>
    /\ provider_outcome = "none"
    /\ ChopIdle
    /\ DownloadIdle
    /\ AdapterIdle
    /\ MultipleIdle
    /\ TimeIdle

\* boundaries = calculate_chunk_boundaries(timestamp, num_chunks)
PlanBoundaries ==
    /\ pc = "plan" /\ boundaries = <<>>
    /\ boundaries' = calculate_chunk_boundaries(timestamp, num_chunks)
    /\ UNCHANGED <<cliVars, provider_outcome, num_chunks, services, pc, callee,
                   span, i, svcs, k, matches, result, exit_code, events, regions>>

\* span = get_total_duration_for_chunks(timestamp, num_chunks)
PlanSpan ==
    /\ pc = "plan" /\ span = <<>>
    /\ span' = get_total_duration_for_chunks(timestamp, num_chunks)
    /\ UNCHANGED <<cliVars, provider_outcome, num_chunks, services, pc, callee,
                   boundaries, i, svcs, k, matches, result, exit_code, events,
                   regions>>

NextPlan == PlanBoundaries \/ PlanSpan

SpecPlan == InitPlan /\ [][NextPlan]_vars

(***************************************************************************)
(* Specification of chop_into_chunks: the function is called up to MaxRuns *)
(* times for the same source, output directory and chunk duration          *)
(***************************************************************************)
\* the variables of the orchestration that chop_into_chunks does not use
scanVars == <<entry, source, service, keep_files, output_dir, timestamp,
              settings, acrcloud_configured, acrcloud_installed, temp_dir,
              audio_path,
              provider_outcome, services, callee, boundaries, span, svcs, k,
              matches, result, exit_code, regions, timeVars>>

\* none of the command's state is in use
CallIdle ==
    /\ source = "local" /\ service = "all" /\ services = <<>>
    /\ keep_files = FALSE /\ output_dir = FALSE /\ temp_dir = "none"
    /\ audio_path = NoAudio
    /\ timestamp = NoTime /\ boundaries = <<>> /\ span = <<>>
    /\ callee = "none" /\ svcs = <<>> /\ k = 1 /\ matches = <<>>
    /\ result = NoMatch /\ exit_code = NoExit /\ regions = <<>>
    /\ provider_outcome = "none"
    /\ TimeIdle

ScanIdle ==
    /\ CallIdle
    /\ settings = NoCredentials
    /\ acrcloud_configured = FALSE /\ acrcloud_installed = FALSE

\* the chunk files a run can name
DiskSize == MaxDuration \div MinChunkDuration + 1

\* the output directory before the first run: the first MaxStale chunk
\* paths may hold a file already
StaleDisks ==
    {d \in [1..DiskSize -> {"absent", "empty", "old"}] :
        \A j \in 1..DiskSize : j > MaxStale => d[j] = "absent"}

InitChop ==
    /\ entry = "chop_into_chunks"
    /\ total_duration \in 0..MaxDuration
    /\ chunk_duration \in {MinChunkDuration, default_chunk_duration}
    /\ disk \in StaleDisks
    /\ run = 0 /\ chunks = <<>> /\ prev = NoRun
    /\ pc = "call" /\ i = 0 /\ num_chunks = 0 /\ events = <<>>
    /\ ScanIdle
    /\ DownloadIdle
    /\ AdapterIdle
    /\ MultipleIdle

\* audio.py 280-289: the directory is made, the duration read (get_duration
\* raises ProcessingError when ffprobe fails) and the chunks are counted
ChopStart ==
    /\ entry = "chop_into_chunks"
    /\ pc \in {"call", "returned", "raised"} /\ run < MaxRuns
    /\ run' = run + 1
    /\ prev' = [completed |-> pc = "returned", chunks |-> chunks,
                disk |-> disk, calls |-> Len(events)]
    /\ chunks' = <<>>                                             \* 288
    /\ i' = 0
    /\ \E probed \in BOOLEAN :
         IF probed
         THEN /\ num_chunks' = planned_chunks(total_duration, chunk_duration)
              /\ pc' = "chop"
         ELSE pc' = "raised" /\ UNCHANGED num_chunks              \* 281
    /\ UNCHANGED <<total_duration, chunk_duration, disk, events, scanVars,
                   downloadVars, adapterVars, multipleVars>>

\* audio.py 291-297: one turn of the loop
ChopChunk ==
    /\ pc = "chop" /\ i < num_chunks
    /\ LET start == i * chunk_duration                            \* 292
           file == disk[i + 1]                                    \* 293
       IN  IF must_extract(file)                                  \* 294
           THEN \E outcome \in ExtractOutcome :                   \* 295
                  LET written == extract_segment(file, outcome, run)
                  IN  /\ events' = Append(events,
                             Extraction(i, outcome, start, chunk_duration))
                      /\ disk' = [disk EXCEPT ![i + 1] = written]
                      /\ IF extract_raises(outcome)
                         THEN pc' = "raised" /\ UNCHANGED <<chunks, i>>
                         ELSE /\ chunks' = IF non_empty(written)  \* 296-297
                                           THEN Append(chunks, <<i, start>>)
                                           ELSE chunks
                              /\ i' = i + 1
                              /\ UNCHANGED pc
           ELSE /\ chunks' = IF non_empty(file)                   \* 296-297
                             THEN Append(chunks, <<i, start>>)
                             ELSE chunks
                /\ i' = i + 1
                /\ UNCHANGED <<events, disk, pc>>
    /\ UNCHANGED <<total_duration, chunk_duration, run, prev, num_chunks,
                   scanVars, downloadVars, adapterVars, multipleVars>>

\* audio.py 299: return chunks
ChopReturn ==
    /\ pc = "chop" /\ i = num_chunks
    /\ pc' = "returned"
    /\ UNCHANGED <<chopVars, i, num_chunks, events, scanVars, downloadVars,
                   adapterVars, multipleVars>>

NextChop == ChopStart \/ ChopChunk \/ ChopReturn

SpecChop == InitChop /\ [][NextChop]_vars

(***************************************************************************)
(* Specification of chop_into_chunks called again: up to MaxRuns calls for *)
(* the same source and output directory, each with a chunk duration of its *)
(* own; the directory may hold empty chunk files from an earlier run       *)
(***************************************************************************)
EmptyStaleDisks == {d \in StaleDisks : \A j \in 1..DiskSize : d[j] # "old"}

InitRechop ==
    /\ entry = "chop_into_chunks_again"
    /\ total_duration \in 1..MaxDuration
    /\ chunk_duration = default_chunk_duration
    /\ disk \in EmptyStaleDisks
    /\ run = 0 /\ chunks = <<>> /\ prev = NoRun
    /\ pc = "call" /\ i = 0 /\ num_chunks = 0 /\ events = <<>>
    /\ ScanIdle
    /\ DownloadIdle
    /\ AdapterIdle
    /\ MultipleIdle

\* audio.py 258-289: a call with the chunk duration c
RechopStart ==
    /\ entry = "chop_into_chunks_again"
    /\ pc \in {"call", "returned", "raised"} /\ run < MaxRuns
    /\ run' = run + 1
    /\ prev' = [completed |-> pc = "returned", chunks |-> chunks,
                disk |-> disk, calls |-> Len(events)]
    /\ chunks' = <<>>                                             \* 288
    /\ i' = 0
    /\ \E c \in {MinChunkDuration, default_chunk_duration} :
         /\ chunk_duration' = c                                   \* 261
         /\ \E probed \in BOOLEAN :
              IF probed
              THEN /\ num_chunks' = planned_chunks(total_duration, c)
                   /\ pc' = "chop"
              ELSE pc' = "raised" /\ UNCHANGED num_chunks         \* 281
    /\ UNCHANGED <<total_duration, disk, events, scanVars, downloadVars,
                   adapterVars, multipleVars>>

NextRechop == RechopStart \/ ChopChunk \/ ChopReturn

SpecRechop == InitRechop /\ [][NextRechop]_vars

(***************************************************************************)
(* Specification of download_audio: one call into a fresh directory        *)
(***************************************************************************)
\* the lengths of stderr: none, below, at and above StderrLimit
StderrLens ==
    {0, StderrLimit - 1} \cup StderrLimit..(StderrLimit + MaxStderrExcess)

\* the files yt-dlp can leave on the destination stem
Candidates == [1..Len(CandidateExts) -> {"absent", "empty", "data"}]
Globs == UNION {[1..m -> GlobbedFile] : m \in 0..MaxGlob}

InitDownload ==
    /\ entry = "download_audio"
    /\ pc = "call"
    /\ DownloadIdle
    /\ ChopIdle
    /\ ScanIdle
    /\ AdapterIdle
    /\ MultipleIdle
    /\ i = 0 /\ num_chunks = 0 /\ events = <<>>

\* audio.py 68-155: yt-dlp runs (119-124), then its output is looked for
DownloadAudio ==
    /\ entry = "download_audio" /\ pc = "call"
    /\ \E outcome \in ToolOutcome, stderr \in StderrLens, cand \in Candidates,
          globbed \in Globs, conv \in ConvertOutcome :
         LET d == download_audio(Tool(outcome, stderr),
                                 Directory(cand, globbed), conv)
         IN  /\ tool' = Tool(outcome, stderr)
             /\ tool_files' = Directory(cand, globbed)
             /\ download' = d
             /\ dest_dir' = d.dir
             /\ pc' = IF d.raised = "none" THEN "returned" ELSE "raised"
    /\ UNCHANGED <<scanVars, chopVars, adapterVars, multipleVars, i, num_chunks,
                   events>>

NextDownload == DownloadAudio

SpecDownload == InitDownload /\ [][NextDownload]_vars

(***************************************************************************)
(* Specification of download_audio called again: the destination holds a  *)
(* file from before the call, "old", on one of the candidate names         *)
(***************************************************************************)
\* the destination before the call
OldDirectories ==
    {Directory(cand, <<>>) :
        cand \in {c \in [1..Len(CandidateExts) -> {"absent", "old"}] :
                     Cardinality({e \in 1..Len(CandidateExts) : c[e] = "old"}) = 1}}

\* the directory after yt-dlp wrote the files `written` into `dir`: a file
\* it did not write stays as it was
written_over(dir, written) ==
    Directory([e \in 1..Len(CandidateExts) |->
                  IF written[e] = "absent" THEN dir.cand[e] ELSE written[e]],
              dir.globbed)

InitRedownload ==
    /\ entry = "download_audio_again"
    /\ pc = "call"
    /\ dest_dir \in OldDirectories
    /\ tool = NoTool /\ tool_files = EmptyDirectory /\ download = NoDownload
    /\ ChopIdle
    /\ ScanIdle
    /\ AdapterIdle
    /\ MultipleIdle
    /\ i = 0 /\ num_chunks = 0 /\ events = <<>>

\* audio.py 68-155: yt-dlp runs (119-124) in the directory as it is, then
\* its output is looked for
Redownload ==
    /\ entry = "download_audio_again" /\ pc = "call"
    /\ \E outcome \in ToolOutcome, stderr \in {0, StderrLimit},
          written \in Candidates, conv \in ConvertOutcome :
         LET d == download_audio(Tool(outcome, stderr),
                                 written_over(dest_dir, written), conv)
         IN  /\ tool' = Tool(outcome, stderr)
             /\ tool_files' = written_over(dest_dir, written)
             /\ download' = d
             /\ dest_dir' = d.dir
             /\ pc' = IF d.raised = "none" THEN "returned" ELSE "raised"
    /\ UNCHANGED <<scanVars, chopVars, adapterVars, multipleVars, i, num_chunks,
                   events>>

NextRedownload == Redownload

SpecRedownload == InitRedownload /\ [][NextRedownload]_vars

(***************************************************************************)
(* Specification of the adapters: identify_shazam and identify_acrcloud    *)
(* are called once, the provider answering with a response of any of the   *)
(* shapes                                                                  *)
(***************************************************************************)
\* what a direct call of an adapter leaves alone
adapterFrame ==
    <<entry, source, service, keep_files, output_dir, timestamp,
      settings, acrcloud_configured, acrcloud_installed, temp_dir, audio_path,
      provider_outcome,
      services, callee, boundaries, span, svcs, k, matches, result, exit_code,
      regions, chopVars, downloadVars, multipleVars, timeVars, i, num_chunks,
      events, shape>>

InitShazam ==
    /\ entry = "identify_shazam"
    /\ shape \in ShazamShapes
    /\ settings = NoCredentials
    /\ acrcloud_configured = FALSE /\ acrcloud_installed = FALSE

\* identify.py 42-79
IdentifyShazam ==
    /\ entry = "identify_shazam" /\ pc = "call"
    /\ adapter' = identify_shazam_response(shazam_call(shape))
    /\ pc' = IF adapter'.raised THEN "raised" ELSE "returned"
    /\ UNCHANGED adapterFrame

InitAcrcloud ==
    /\ entry = "identify_acrcloud"
    /\ settings \in AllSettings
    /\ acrcloud_configured = Settings_acrcloud_configured(settings)
    /\ acrcloud_installed \in BOOLEAN
    /\ shape \in IF acrcloud_configured /\ acrcloud_installed
                 THEN AcrcloudShapes ELSE {AcrcloudDefault}

\* identify.py 82-138
IdentifyAcrcloud ==
    /\ entry = "identify_acrcloud" /\ pc = "call"
    /\ adapter' = identify_acrcloud_response(acrcloud_configured,
                         acrcloud_installed, acrcloud_call(shape))
    /\ pc' = IF adapter'.raised THEN "raised" ELSE "returned"
    /\ UNCHANGED adapterFrame

InitAdapter ==
    /\ InitShazam \/ InitAcrcloud
    /\ adapter = Return(NoMatch)
    /\ pc = "call"
    /\ CallIdle /\ ChopIdle /\ DownloadIdle /\ MultipleIdle
    /\ i = 0 /\ num_chunks = 0 /\ events = <<>>

NextAdapter == IdentifyShazam \/ IdentifyAcrcloud

SpecAdapter == InitAdapter /\ [][NextAdapter]_vars

(***************************************************************************)
(* Specification of identify_multiple: up to MaxFiles audio paths, for     *)
(* each of which identify_track returns any list of matches                *)
(***************************************************************************)
\* the (artist, title) of the matches: two that differ in case only, one
\* with another title, one whose title is None
Pairs ==
    {<<Str("Abba"), Str("Dreams")>>, <<Str("ABBA"), Str("DREAMS")>>,
     <<Str("Abba"), Str("Go")>>, <<Str("Abba"), Null>>}

\* identify.py 196: what identify_track can return for the file `audio`: no
\* match, the match of one service, or the match of shazam and then the
\* match of acrcloud
TrackResults(audio) ==
    {<<>>}
    \cup {<<TitledMatch(p[1], p[2], s, audio)>> : p \in Pairs, s \in {"shazam", "acrcloud"}}
    \cup {<<TitledMatch(p[1], p[2], "shazam", audio),
            TitledMatch(q[1], q[2], "acrcloud", audio)>> : p \in Pairs, q \in Pairs}

InitMultiple ==
    /\ entry = "identify_multiple"
    /\ audio_paths \in 0..MaxFiles
    /\ seen = {}                                                   \* 192
    /\ pc = "multiple"
    /\ i = 0 /\ num_chunks = 0 /\ events = <<>>
    /\ ScanIdle /\ ChopIdle /\ DownloadIdle /\ AdapterIdle

\* what identify_multiple leaves alone
multipleFrame ==
    <<entry, source, service, keep_files, output_dir, timestamp,
      settings, acrcloud_configured, acrcloud_installed, temp_dir, audio_path,
      provider_outcome,
      services, callee, boundaries, span, svcs, k, result, exit_code,
      chopVars, downloadVars, adapterVars, timeVars, num_chunks, events,
      audio_paths>>

\* identify.py 195-205: one turn of the loop over audio_paths (the sleep of
\* 204-205 changes nothing); identify_track returns its matches, or raises
\* IdentificationError
MultipleFile ==
    /\ pc = "multiple" /\ i < audio_paths
    /\ \/ \E results \in TrackResults(i) :                        \* 196
            LET acc == dedupe(results, 1, Deduped(FALSE, seen, matches))
            IN  /\ regions' = Append(regions, Region(i, "ok", results))
                /\ seen' = acc.seen
                /\ matches' = acc.matches
                /\ pc' = IF acc.raised THEN "raised" ELSE "multiple"
                /\ i' = IF acc.raised THEN i ELSE i + 1
       \/ /\ regions' = Append(regions, Region(i, "raise", <<>>))
          /\ pc' = "raised"
          /\ UNCHANGED <<seen, matches, i>>
    /\ UNCHANGED multipleFrame

\* identify.py 207: return matches
MultipleReturn ==
    /\ pc = "multiple" /\ i = audio_paths
    /\ pc' = "returned"
    /\ UNCHANGED <<multipleFrame, i, seen, matches, regions>>

NextMultiple == MultipleFile \/ MultipleReturn

SpecMultiple == InitMultiple /\ [][NextMultiple]_vars

(***************************************************************************)
(* Specification of the time strings: a number of seconds is formatted by  *)
(* one of the formatting functions and the string is parsed by parse_time  *)
(***************************************************************************)
\* format_time(s), format_time(s, always_include_hours=True),
\* format_time_padded(s)
TimeFormats == {"format_time", "always_include_hours", "format_time_padded"}

\* the seconds that are formatted: every second up to MaxSeconds, and hour
\* counts of one, two and three digits with minutes and seconds of one and
\* two digits
SampleSeconds ==
    0..MaxSeconds
    \cup {hours * 3600 + minutes * 60 + secs :
            hours \in {1, 9, 10, 99, MaxHours},
            minutes \in {0, 9, 10, 59}, secs \in {0, 9, 10, 59}}

timeFrame ==
    <<entry, source, service, keep_files, output_dir, settings,
      acrcloud_configured, acrcloud_installed, temp_dir, audio_path,
      provider_outcome, services, callee, boundaries, span, svcs, k, matches,
      result, exit_code, regions, chopVars, downloadVars, adapterVars,
      multipleVars, i, num_chunks, events, seconds, time_format>>

InitTime ==
    /\ entry = "parse_time"
    /\ seconds \in SampleSeconds
    /\ time_format \in TimeFormats
    /\ time = <<>>
    /\ pc = "call" /\ i = 0 /\ num_chunks = 0 /\ events = <<>>
    /\ source = "local" /\ service = "all" /\ services = <<>>
    /\ keep_files = FALSE /\ output_dir = FALSE /\ temp_dir = "none"
    /\ audio_path = NoAudio
    /\ timestamp = NoTime /\ boundaries = <<>> /\ span = <<>>
    /\ callee = "none" /\ svcs = <<>> /\ k = 1 /\ matches = <<>>
    /\ result = NoMatch /\ exit_code = NoExit /\ regions = <<>>
    /\ provider_outcome = "none"
    /\ settings = NoCredentials
    /\ acrcloud_configured = FALSE /\ acrcloud_installed = FALSE
    /\ ChopIdle /\ DownloadIdle /\ AdapterIdle /\ MultipleIdle

\* utils.py 51-79: the seconds are formatted
FormatTime ==
    /\ entry = "parse_time" /\ pc = "call"
    /\ time' = CASE time_format = "format_time" -> format_time(seconds, FALSE)
                 [] time_format = "always_include_hours" -> format_time(seconds, TRUE)
                 [] OTHER -> format_time_padded(seconds)
    /\ pc' = "formatted"
    /\ UNCHANGED <<timeFrame, timestamp>>

\* utils.py 7-48 as called at cli.py 167: timestamp = parse_time(time)
ParseTime ==
    /\ entry = "parse_time" /\ pc = "formatted"
    /\ LET parsed == parse_time(time)
       IN  IF parsed.raised
           THEN pc' = "raised" /\ UNCHANGED timestamp
           ELSE pc' = "returned" /\ timestamp' = parsed.value
    /\ UNCHANGED <<timeFrame, time>>

NextTime == FormatTime \/ ParseTime

SpecTime == InitTime /\ [][NextTime]_vars

(***************************************************************************)
(* Properties of the planner (SpecPlan)                                    *)
(***************************************************************************)
\* min(5, max(1, n)), written out
Clamped(n) == IF n < 1 THEN 1 ELSE IF n > 5 THEN 5 ELSE n

\* C7: for every timestamp t >= 0 and every integer n, also n <= 0 and n > 5,
\* calculate_chunk_boundaries(t, n) is the same sequence as
\* calculate_chunk_boundaries(t, min(5, max(1, n))), and its length is
\* min(5, max(1, n)).
C7_ClampedPlan ==
    boundaries # <<>> =>
        /\ boundaries = calculate_chunk_boundaries(timestamp, Clamped(num_chunks))
        /\ Len(boundaries) = Clamped(num_chunks)

C7_Witness == boundaries # <<>> /\ num_chunks > 5 /\ Len(boundaries) = 5

\* the plan of section 4.1 for n windows
ReferencePlan(t, n) ==
    [w \in 1..n |->
        IF w = 1 THEN <<(IF t - 10 > 0 THEN t - 10 ELSE 0), t + 20>>
                 ELSE <<t + 20 + (w - 2) * 20, t + 20 + (w - 1) * 20>>]

\* C8: for every t >= 0 and n in 1..5 the plan is the reference plan: window 0
\* is (max(0, t-10), t+20), window i >= 1 is (t+20+(i-1)*20, t+20+i*20);
\* plan(100,5) and plan(5,1) are the sequences of the tests.
C8_ReferencePlan ==
    /\ (boundaries # <<>> /\ num_chunks \in 1..5) =>
           boundaries = ReferencePlan(timestamp, num_chunks)
    /\ calculate_chunk_boundaries(100, 5) =
           <<<<90, 120>>, <<120, 140>>, <<140, 160>>, <<160, 180>>, <<180, 200>>>>
    /\ calculate_chunk_boundaries(5, 1) = <<<<0, 25>>>>

C8_Witness == boundaries # <<>> /\ num_chunks = 5 /\ timestamp < 10

\* C9: for every t >= 0 and n in 1..5 the windows are contiguous and do not
\* overlap: each has 0 <= start < end, and each window ends where the next
\* one starts (window 0 to window 1 included).
C9_Contiguous ==
    (boundaries # <<>> /\ num_chunks \in 1..5) =>
        /\ \A w \in 1..Len(boundaries) :
             0 <= boundaries[w][1] /\ boundaries[w][1] < boundaries[w][2]
        /\ \A w \in 1..Len(boundaries) - 1 :
             boundaries[w][2] = boundaries[w + 1][1]

C9_Witness ==
    boundaries # <<>> /\ num_chunks \in 1..5 /\ Len(boundaries) >= 3 /\ timestamp < 10

\* C10: get_total_duration_for_chunks(t, n) is (max(0, t-10),
\* t + 20*min(5, max(1, n))); every window of the plan lies inside it, and its
\* start and end are the start of window 0 and the end of the last window.
C10_SpanCoversPlan ==
    span # <<>> =>
        /\ span = <<(IF timestamp - 10 > 0 THEN timestamp - 10 ELSE 0),
                    timestamp + 20 * Clamped(num_chunks)>>
        /\ boundaries # <<>> =>
             /\ \A w \in 1..Len(boundaries) :
                  span[1] <= boundaries[w][1] /\ boundaries[w][2] <= span[2]
             /\ span[1] = boundaries[1][1]
             /\ span[2] = boundaries[Len(boundaries)][2]

C10_Witness ==
    span # <<>> /\ boundaries # <<>> /\ Len(boundaries) >= 3 /\ timestamp > 10

(***************************************************************************)
(* Properties of the orchestration (Spec)                                  *)
(***************************************************************************)
ChunkScan == callee = "identify_with_chunks"

\* the function has returned (the command may have printed and ended)
Finished == pc = "returned" \/ (pc = "exit" /\ exit_code = 0)

\* the function has raised (the command may have ended on it)
Raised == pc = "raised" \/ (pc = "exit" /\ exit_code = 1 /\ callee # "none")

\* the finished regions whose submission yielded a match
Hits == {j \in 1..Len(regions) : regions[j].matches # <<>>}

Last(s) == s[Len(s)]

\* the adapter calls made for chunk c, in the order they were made
CallsFor(c) ==
    SelectSeq(events, LAMBDA e : e.op \in {"shazam", "acrcloud"} /\ e.chunk = c)

\* the services asked for: None or a list with "all" stands for both
Requested ==
    IF services = NONE \/ \E n \in 1..Len(services) : services[n] = "all"
    THEN <<"shazam", "acrcloud">>
    ELSE services

\* the requested services that are configured
ExpectedCalls ==
    SelectSeq(Requested, LAMBDA x : x = "shazam" \/ (x = "acrcloud" /\ acrcloud_configured))

\* after region j the scan went on with the next region, or ended with None
\* when j was the last region
WentOn(j) ==
    LET c == regions[j].chunk
    IN  /\ i > c
        /\ j = Len(regions) =>
             IF c + 1 < Len(boundaries)
             THEN i = c + 1 /\ (pc \in {"scan", "identify"} \/ Raised)
             ELSE Finished /\ result = NoMatch

\* C1: identify_with_chunks returns the match of the first region, in window
\* order, whose submission yields a match, and returns None when no region
\* yields one; with the outcomes extraction fails / output empty / no match /
\* match it does not raise (it raises only when the acrcloud package is
\* missing while credentials are configured).
C1_FirstMatchWins ==
    ChunkScan =>
        /\ \A j \in 1..Len(regions) : regions[j].chunk = j - 1
        /\ Finished =>
             IF Hits = {}
             THEN result = NoMatch /\ Len(regions) = Len(boundaries)
             ELSE LET f == CHOOSE j \in Hits : \A h \in Hits : j <= h
                  IN  /\ result = <<regions[f].matches[1]>>
                      /\ result[1].audio = f - 1
        /\ Raised => acrcloud_configured /\ ~acrcloud_installed

C1_Witness ==
    /\ ChunkScan /\ Finished /\ Len(regions) = 3
    /\ regions[1].extracted = "raise" /\ regions[2].extracted = "ok"
    /\ result # NoMatch

\* C2: the scan is sequential and ends at the first match: the events of the
\* regions are in window order, each region is extracted once and before its
\* provider calls, region i+1 is extracted only when region i is finished
\* without a match, and after a match nothing more is extracted or submitted.
C2_SequentialScan ==
    ChunkScan =>
        /\ \A a, b \in 1..Len(events) : a < b => events[a].chunk <= events[b].chunk
        /\ \A b \in 1..Len(events) :
             IF events[b].op = "extract"
             THEN /\ \A a \in 1..Len(events) :
                       (a # b /\ events[a].op = "extract")
                           => events[a].chunk # events[b].chunk
                  /\ events[b].chunk > 0 =>
                       \E j \in 1..Len(regions) :
                           /\ regions[j].chunk = events[b].chunk - 1
                           /\ regions[j].matches = <<>>
             ELSE \E a \in 1..(b - 1) :
                       /\ events[a].op = "extract" /\ events[a].outcome = "ok"
                       /\ events[a].chunk = events[b].chunk
        /\ \A j \in Hits :
             /\ j = Len(regions) /\ Finished
             /\ \A b \in 1..Len(events) : events[b].chunk <= regions[j].chunk

C2_Witness ==
    /\ ChunkScan /\ Finished /\ Len(boundaries) = 3
    /\ Len(regions) = 2 /\ regions[1].extracted = "ok" /\ Hits = {2}

\* C3: an extraction failure is not fatal: when extract_segment raises for
\* region i or leaves an empty file, no provider is called for region i, the
\* scan goes on with region i+1 (or returns None after the last region), and
\* no exception leaves the scan on account of the extraction.
C3_ExtractionFailureNonFatal ==
    ChunkScan =>
        /\ \A j \in 1..Len(regions) :
             regions[j].extracted # "ok" =>
                 /\ \A b \in 1..Len(events) :
                      events[b].chunk = regions[j].chunk => events[b].op = "extract"
                 /\ WentOn(j)
        /\ Raised => (events # <<>> /\ Last(events).op # "extract")

C3_Witness ==
    /\ ChunkScan /\ Len(regions) >= 2
    /\ regions[1].extracted = "raise" /\ regions[2].extracted = "empty"
    /\ \E b \in 1..Len(events) : events[b].op = "shazam" /\ events[b].chunk = 2

\* C4 as claimed: whatever a provider call does, the missing acrcloud package
\* with configured credentials included, the scan never ends with an
\* exception.
C4_RecognitionNeverAborts == ChunkScan => ~Raised

\* C4, amended: a provider call that returns no match or fails inside the
\* adapter lets the scan go on with region i+1; the scan ends with an
\* exception (IdentificationError) exactly in the case that acrcloud is
\* requested and configured and its package cannot be imported.
C4_AbortsOnlyOnMissingDependency ==
    ChunkScan =>
        /\ Raised =>
             /\ acrcloud_configured /\ ~acrcloud_installed
             /\ Last(events) = Call("acrcloud", i, "raise")
             /\ provider_outcome = "ImportError"
        /\ \A j \in 1..Len(regions) :
             (regions[j].extracted = "ok" /\ regions[j].matches = <<>>) => WentOn(j)
        /\ ~(pc = "identify" /\ k > 1 /\ svcs[k - 1] = "acrcloud"
               /\ acrcloud_configured /\ ~acrcloud_installed)

C4_Witness ==
    /\ ChunkScan /\ pc = "scan" /\ i >= 1
    /\ provider_outcome = "error"
    /\ Last(regions).extracted = "ok" /\ Last(regions).chunk = i - 1

\* shazam is consulted before acrcloud for every chunk, and where both match
\* the first match is shazam's
ShazamFirst ==
    /\ \A a, b \in 1..Len(events) :
         (events[a].op = "acrcloud" /\ events[b].op = "shazam"
             /\ events[a].chunk = events[b].chunk) => b < a
    /\ \A j \in 1..Len(regions) :
         Len(regions[j].matches) >= 2 => regions[j].matches[1].service = "shazam"

\* C5 as claimed: shazam is consulted before acrcloud in whatever order the
\* caller lists the services, and when both match the result is shazam's.
C5_ShazamAlwaysFirst == ShazamFirst

\* C5, amended: the providers are consulted in the order of the services
\* list (None or a list with "all" standing for shazam, acrcloud), and the
\* result is the first match in that order.  The identify command builds its
\* list with shazam first, so from the command, and with services None or
\* "all", shazam is consulted before acrcloud and wins when both match.
C5_ConsultedInListOrder ==
    /\ \A b \in 1..Len(events) :
         LET calls == CallsFor(events[b].chunk)
         IN  /\ Len(calls) <= Len(ExpectedCalls)
             /\ \A n \in 1..Len(calls) : calls[n].op = ExpectedCalls[n]
    /\ (entry = "identify" \/ Requested # services) => ShazamFirst
    /\ \A j \in Hits :
         LET calls == CallsFor(regions[j].chunk)
             first == CHOOSE n \in 1..Len(calls) :
                         /\ calls[n].outcome = "match"
                         /\ \A m \in 1..(n - 1) : calls[m].outcome # "match"
         IN  /\ regions[j].matches[1] = TrackMatch(calls[first].op, regions[j].chunk)
             /\ (Finished /\ callee # "identify_track") =>
                    result = <<regions[j].matches[1]>>

C5_Witness ==
    /\ entry = "identify" /\ pc = "exit" /\ regions # <<>>
    /\ Len(Last(regions).matches) = 2
    /\ result = <<TrackMatch("shazam", Last(regions).chunk)>>

\* C6: identify_track consults every requested and configured service, once
\* for each time it is listed (exactly once in a list without repetitions),
\* also after an earlier service has matched; with services None or "all"
\* these are shazam and acrcloud; it returns the non-null matches in the
\* order the services were consulted.
C6_EveryServiceConsulted ==
    /\ \A j \in 1..Len(regions) :
         regions[j].extracted = "ok" =>
             LET c == regions[j].chunk
                 calls == CallsFor(c)
                 hit == SelectSeq(calls, LAMBDA e : e.outcome = "match")
             IN  /\ Len(calls) = Len(ExpectedCalls)
                 /\ \A n \in 1..Len(calls) : calls[n].op = ExpectedCalls[n]
                 /\ (\A m, n \in 1..Len(Requested) :
                        Requested[m] = Requested[n] => m = n)
                      => \A n \in 1..Len(ExpectedCalls) :
                            Cardinality({m \in 1..Len(calls) :
                                            calls[m].op = ExpectedCalls[n]}) = 1
                 /\ (Requested # services /\ acrcloud_configured)
                      => (Len(calls) = 2 /\ calls[1].op = "shazam"
                            /\ calls[2].op = "acrcloud")
                 /\ Len(regions[j].matches) = Len(hit)
                 /\ \A n \in 1..Len(hit) :
                      regions[j].matches[n] = TrackMatch(hit[n].op, c)
    /\ (callee = "identify_track" /\ pc = "returned") =>
           (Len(regions) = 1 /\ matches = regions[1].matches)

C6_Witness ==
    /\ callee = "identify_track" /\ pc = "returned"
    /\ Len(matches) = 2 /\ matches[1].service = "shazam"
    /\ matches[2].service = "acrcloud"

(***************************************************************************)
(* Claims about chop_into_chunks (specification SpecChop)                  *)
(***************************************************************************)
\* floor(d / c), stated without division: the q with q*c <= d < (q+1)*c
FloorDiv(d, c) == CHOOSE q \in 0..d : q * c <= d /\ d < (q + 1) * c

\* the count the claim states: max(1, floor(d / c)), and one more iff the
\* remainder is above 5 seconds
ClaimedChunks(d, c) ==
    LET q == FloorDiv(d, c)
        n == IF q < 1 THEN 1 ELSE q
    IN  IF d - q * c > 5 THEN n + 1 ELSE n

\* a run of chop_into_chunks has counted its chunks
Chopping == entry = "chop_into_chunks" /\ run > 0 /\ num_chunks > 0

\* the extract_segment calls of the current run
RunCalls == SubSeq(events, prev.calls + 1, Len(events))

\* C11: chop_into_chunks plans max(1, floor(duration / chunk_duration))
\* chunks and one more iff the remainder is above 5 seconds (65 s in chunks of
\* 20 s: 3 chunks, 66 s: 4); chunk i starts at i * chunk_duration, in the
\* extraction and in the returned entry; the returned sequence lists, in
\* ascending order of index, the planned chunks whose file is not empty, so
\* all N of them when every planned chunk is extracted to a non-empty file.
C11_ChunkPlan ==
    Chopping =>
        /\ num_chunks = ClaimedChunks(total_duration, chunk_duration)
        /\ (total_duration = 65 /\ chunk_duration = 20) => num_chunks = 3
        /\ (total_duration = 66 /\ chunk_duration = 20) => num_chunks = 4
        /\ \A e \in 1..Len(events) :
              /\ events[e].chunk \in 0..(num_chunks - 1)
              /\ events[e].args = <<events[e].chunk * chunk_duration, chunk_duration>>
        /\ \A j \in 1..Len(chunks) :
              /\ chunks[j][1] \in 0..(num_chunks - 1)
              /\ chunks[j][2] = chunks[j][1] * chunk_duration
              /\ j > 1 => chunks[j - 1][1] < chunks[j][1]
        /\ pc = "returned" =>
              /\ {chunks[j][1] : j \in 1..Len(chunks)}
                    = {c \in 0..(num_chunks - 1) : non_empty(disk[c + 1])}
              /\ (/\ Len(RunCalls) = num_chunks
                  /\ \A e \in 1..Len(RunCalls) : RunCalls[e].outcome = "ok")
                 => /\ Len(chunks) = num_chunks
                    /\ \A j \in 1..num_chunks : chunks[j][1] = j - 1

\* a file of 66 s was chopped into chunks of 20 s, every chunk was extracted
\* to a non-empty file, and four chunks came back
C11_Witness ==
    /\ Chopping /\ pc = "returned"
    /\ total_duration = 66 /\ chunk_duration = 20
    /\ Len(RunCalls) = 4
    /\ \A e \in 1..Len(RunCalls) : RunCalls[e].outcome = "ok"
    /\ Len(chunks) = 4

\* C12: chunking is idempotent by path.  A chunk whose path exists when
\* chop_into_chunks is called is not extracted by that call; and a call made
\* after a call that returned, for the same source, output directory and
\* chunk duration, calls extract_segment zero times, leaves every chunk file
\* as it was and returns the sequence the earlier call returned.
C12_IdempotentByPath ==
    (entry = "chop_into_chunks" /\ run > 0) =>
        /\ \A e \in 1..Len(RunCalls) :
              prev.disk[RunCalls[e].chunk + 1] = "absent"
        /\ prev.completed =>
              /\ RunCalls = <<>>
              /\ disk = prev.disk
              /\ pc = "returned" => chunks = prev.chunks

\* a second call returned after a first call that extracted at least two
\* chunks and returned them
C12_Witness ==
    /\ entry = "chop_into_chunks" /\ run = 2 /\ pc = "returned"
    /\ prev.completed /\ prev.calls >= 2 /\ Len(prev.chunks) >= 2
    /\ chunks = prev.chunks

(***************************************************************************)
(* Claims about download_audio (specification SpecDownload)                *)
(***************************************************************************)
\* a call of download_audio has ended
Downloaded == entry = "download_audio" /\ pc \in {"returned", "raised"}

\* no file on the destination stem has data, candidate or globbed
NoUsableFile(dir) ==
    /\ \A e \in 1..Len(dir.cand) : dir.cand[e] \in {"absent", "empty"}
    /\ \A g \in 1..Len(dir.globbed) : dir.globbed[g].size = "empty"

\* there are files on the destination stem
SomeFile(dir) ==
    \/ \E e \in 1..Len(dir.cand) : dir.cand[e] # "absent"
    \/ dir.globbed # <<>>

\* DownloadError "Download failed: ..." with at most the first 500
\* characters of stderr
FailedWithPrefix ==
    /\ pc = "raised" /\ download.raised = "DownloadError"
    /\ download.message # "timed out"
    /\ download.carried <= 500
    /\ download.carried = IF tool.stderr <= 500 THEN tool.stderr ELSE 500

\* C13: download_audio raises DownloadError when yt-dlp runs out of time;
\* when it exits with a status other than 0 and no non-empty file is found,
\* by candidate extension or by the stem glob; and when every file found is
\* empty.  In the last two cases the message carries at most the first 500
\* characters of stderr.
C13_DownloadErrors ==
    Downloaded =>
        /\ tool.outcome = "timeout" =>
              pc = "raised" /\ download.raised = "DownloadError"
        /\ (tool.outcome = "exit1" /\ NoUsableFile(tool_files)) => FailedWithPrefix
        /\ (tool.outcome # "timeout" /\ SomeFile(tool_files)
              /\ NoUsableFile(tool_files)) => FailedWithPrefix

\* yt-dlp exited with status 1 and more than 500 characters of stderr, and
\* left only empty files: DownloadError with the first 500 characters
C13_Witness ==
    /\ Downloaded /\ tool.outcome = "exit1" /\ tool.stderr > 500
    /\ SomeFile(tool_files) /\ NoUsableFile(tool_files)
    /\ download.raised = "DownloadError" /\ download.carried = 500

\* C14: after yt-dlp ran, download_audio takes the first file that exists
\* and is not empty in the order .mp3, .m4a, .opus, .webm, .mp3.mp3; the
\* files of the stem glob are looked at only when no candidate is usable, and
\* the first non-empty one of them is taken; an empty file is never taken.
C14_FirstUsableFile ==
    (Downloaded /\ tool.outcome # "timeout") =>
        LET sel == download.selected
            cand == tool_files.cand
            globbed == tool_files.globbed
            usable == {e \in 1..Len(cand) : cand[e] = "data"}
        IN  /\ CandidateExts = <<".mp3", ".m4a", ".opus", ".webm", ".mp3.mp3">>
            /\ sel = <<>> <=> NoUsableFile(tool_files)
            /\ usable # {} =>
                  /\ sel[1] = "candidate" /\ sel[2] \in usable
                  /\ \A e \in usable : sel[2] <= e
            /\ (usable = {} /\ sel # <<>>) =>
                  /\ sel[1] = "glob" /\ sel[2] \in 1..Len(globbed)
                  /\ globbed[sel[2]].size = "data"
                  /\ \A g \in 1..(sel[2] - 1) : globbed[g].size = "empty"

\* the .mp3 file is empty, there is no .m4a file, and the .opus file is
\* taken although the .webm file and a globbed file have data too
C14_Witness ==
    /\ Downloaded /\ download.selected = <<"candidate", 3>>
    /\ tool_files.cand[1] = "empty" /\ tool_files.cand[2] = "absent"
    /\ tool_files.cand[4] = "data"
    /\ \E g \in 1..Len(tool_files.globbed) : tool_files.globbed[g].size = "data"

\* C15: when download_audio returns, the returned path is the destination
\* with the suffix .mp3 and that file exists; a selected file whose extension
\* is not .mp3 went through convert_to_mp3 and exists no longer; a selected
\* file whose extension is .mp3 was renamed to the destination, or was the
\* destination already, and convert_to_mp3 was not called.
C15_CanonicalResult ==
    (Downloaded /\ pc = "returned") =>
        LET sel == download.selected
            n == sel[2]
        IN  /\ download.raised = "none" /\ download.path = ".mp3"
            /\ dest_dir.cand[1] # "absent"
            /\ IF sel[1] = "candidate"
               THEN IF CandidateExts[n] # ".mp3"
                    THEN /\ download.converts = <<Convert(CandidateExts[n], "ok")>>
                         /\ dest_dir.cand[n] = "absent"
                    ELSE /\ download.converts = <<>>
                         /\ dest_dir = tool_files
               ELSE /\ dest_dir.globbed = RemoveAt(tool_files.globbed, n)
                    /\ IF tool_files.globbed[n].suffix # "mp3"
                       THEN download.converts = <<Convert("glob", "ok")>>
                       ELSE /\ download.converts = <<>>
                            /\ dest_dir.cand[1] = tool_files.globbed[n].size

\* the .m4a file was taken while the .mp3 file was missing: it was converted
\* and removed, and the .mp3 file is there
C15_Witness ==
    /\ Downloaded /\ pc = "returned"
    /\ download.selected = <<"candidate", 2>>
    /\ tool_files.cand[1] = "absent" /\ dest_dir.cand[1] = "data"
    /\ dest_dir.cand[2] = "absent" /\ Len(download.converts) = 1

(***************************************************************************)
(* Claims about the adapters (specification SpecAdapter)                   *)
(***************************************************************************)
\* the Shazam response holds a "track" entry that the adapter cannot read:
\* the track, sections[0] or metadata[0] is not an object
ShazamMalformed ==
    /\ shape.call = "track"
    /\ \/ shape.track # "dict"
       \/ shape.sections \in {"item_null", "metadata_item_null"}

\* C16: identify_shazam never raises.  It returns None when the provider
\* call raises an exception, when the response is empty or has no "track"
\* entry and when the response is malformed; it returns a TrackMatch, of
\* service "shazam", only when the response holds a "track" entry.
C16_ShazamNeverRaises ==
    (entry = "identify_shazam" /\ pc # "call") =>
        /\ pc = "returned" /\ ~adapter.raised
        /\ shape.call \in {"exception", "none", "empty", "notrack"}
              => adapter.value = NoMatch
        /\ ShazamMalformed => adapter.value = NoMatch
        /\ adapter.value # NoMatch =>
              /\ shape.call = "track"
              /\ adapter.value[1].service = "shazam"

\* the provider call raised an exception and identify_shazam returned None
C16_Witness ==
    /\ entry = "identify_shazam" /\ pc = "returned"
    /\ shape.call = "exception" /\ adapter = Return(NoMatch)

\* the steps of identify_acrcloud and the calls of it by identify_track
AcrcloudOps == {"acrcloud", "import", "ACRCloudRecognizer", "recognize_by_file"}

\* C17: when the ACRCloud credentials are absent, identify_acrcloud returns
\* None without importing or constructing the recognizer and without a
\* recognition call, and identify_track does not call identify_acrcloud
\* (specification Spec).
C17_NoCredentialsNoCall ==
    ~acrcloud_configured =>
        /\ \A e \in 1..Len(events) : events[e].op \notin AcrcloudOps
        /\ (entry = "identify_acrcloud" /\ pc \notin {"call", "enter"}) =>
              pc = "returned" /\ result = NoMatch

\* identify_acrcloud was called without credentials, the recognizer being
\* installed: it returned None and did nothing on the way
C17_Witness ==
    /\ entry = "identify_acrcloud" /\ pc = "returned"
    /\ ~acrcloud_configured /\ acrcloud_installed
    /\ result = NoMatch /\ events = <<>>

\* identify_acrcloud ran with credentials, the recognizer installed, and
\* the provider answered with a response that has a status code
AcrcloudAnswered ==
    /\ entry = "identify_acrcloud" /\ pc # "call"
    /\ acrcloud_configured /\ acrcloud_installed
    /\ shape.call = "json" /\ shape.status = "code"

\* C18: with credentials configured, identify_acrcloud returns a TrackMatch
\* exactly when the status code of the parsed response is 0, and None, not
\* an error, for every other status code (1001 among them).
C18_MatchIffCodeZero ==
    AcrcloudAnswered =>
        /\ ~adapter.raised
        /\ adapter.value # NoMatch <=> shape.code = 0

\* C18, amended: with credentials configured, identify_acrcloud returns a
\* TrackMatch only when the status code is 0 and metadata.music lists an
\* entry, as it does for the documented response; it returns None, not an
\* error, for every other status code (1001 among them) and for status 0
\* without a music entry.
C18_MatchOnlyOnCodeZeroWithMusic ==
    AcrcloudAnswered =>
        /\ pc = "returned" /\ ~adapter.raised
        /\ adapter.value # NoMatch =>
              /\ shape.code = 0 /\ shape.music = "item"
              /\ adapter.value[1].service = "acrcloud"
        /\ shape.code # 0 => adapter.value = NoMatch
        /\ shape.music \in {"metadata_absent", "music_absent", "music_empty"}
              => adapter.value = NoMatch
        /\ shape = AcrcloudDefault => adapter.value # NoMatch

\* status 0 with an empty music list: None
C18_Witness ==
    /\ AcrcloudAnswered /\ pc = "returned"
    /\ shape.code = 0 /\ shape.music = "music_empty"
    /\ adapter = Return(NoMatch)

\* the response signals a match: Shazam answered with a "track" object,
\* ACRCloud with status 0 and a music entry that is an object
SignalsMatch ==
    /\ pc # "call"
    /\ \/ entry = "identify_shazam" /\ shape.call = "track" /\ shape.track = "dict"
       \/ AcrcloudAnswered /\ shape.code = 0 /\ shape.music = "item"

\* the field as the claim has it: the value where the response holds one,
\* the placeholder where the key is absent or null
Tolerant(slot, given, value, placeholder) ==
    IF slot = given THEN value ELSE placeholder

\* C19: both adapters tolerate partial responses.  For a response that
\* signals a match in which a nested field (title, artist / subtitle, artists
\* list, album, sections / metadata, url, external_metadata / spotify id,
\* score) is absent or null, the adapter returns a TrackMatch with "Unknown"
\* for a title or artist and None for an album, url or confidence that it
\* could not read, and it never raises.
C19_PartialResponsesTolerated ==
    SignalsMatch =>
        /\ ~adapter.raised
        /\ adapter.value # NoMatch
        /\ LET m == adapter.value[1]
           IN  IF entry = "identify_shazam"
               THEN /\ m.title = Tolerant(shape.title, "str", Str("Dreams"), Str("Unknown"))
                    /\ m.artist = Tolerant(shape.subtitle, "str",
                                           Str("Fleetwood Mac"), Str("Unknown"))
                    /\ m.album = Tolerant(shape.sections, "text", Str("Rumours"), Null)
                    /\ m.url.t = Tolerant(shape.url, "str", "str", "null")
                    /\ m.confidence = Null
               ELSE /\ m.title = Tolerant(shape.title, "str", Str("Dreams"), Str("Unknown"))
                    /\ m.artist = Tolerant(shape.artists, "name",
                                           Str("Fleetwood Mac"), Str("Unknown"))
                    /\ m.album = Tolerant(shape.album, "name", Str("Rumours"), Null)
                    /\ m.url.t = Tolerant(shape.external, "id", "str", "null")
                    /\ m.confidence.t = Tolerant(shape.score, "str", "num", "null")

(***************************************************************************)
(* Claims about identify_multiple (specification SpecMultiple)             *)
(***************************************************************************)
\* the matches identify_track returned, in the order of the files and,
\* within a file, of the providers
RECURSIVE Encountered(_)
Encountered(n) ==
    IF n = 0 THEN <<>> ELSE Encountered(n - 1) \o regions[n].matches

\* two names that differ in case at most
SameName(a, b) ==
    \/ a = b
    \/ {a, b} = {"Abba", "ABBA"}
    \/ {a, b} = {"Dreams", "DREAMS"}

\* two matches whose lower-cased (artist, title) pairs are equal
SamePair(m, n) ==
    SameName(m.artist.v[1], n.artist.v[1]) /\ SameName(m.title.v[1], n.title.v[1])

\* C20: identify_multiple deduplicates by case-insensitive (artist, title):
\* the returned list never holds two matches whose lower-cased pairs are
\* equal, across files and across the providers of a file; the match kept
\* for a pair is the first one met in the order of the files and, within a
\* file, of the providers; and every pair that was matched is there once.
C20_DedupedFirstWins ==
    (entry = "identify_multiple" /\ pc = "returned") =>
        LET all == Encountered(Len(regions))
            firsts == {p \in 1..Len(all) :
                          \A q \in 1..(p - 1) : ~SamePair(all[q], all[p])}
        IN  /\ Len(regions) = audio_paths
            /\ \A a, b \in 1..Len(matches) :
                  SamePair(matches[a], matches[b]) => a = b
            /\ Len(matches) = Cardinality(firsts)
            /\ \A a \in 1..Len(matches) :
                  \E p \in firsts :
                      /\ matches[a] = all[p]
                      /\ Cardinality({q \in firsts : q <= p}) = a
            /\ \A p \in 1..Len(all) :
                  Cardinality({a \in 1..Len(matches) : SamePair(matches[a], all[p])}) = 1

\* two files: shazam and acrcloud matched the same pair for the first, in
\* different case, and the second file matched it again: shazam's match of
\* the first file is the only one returned
C20_Witness ==
    /\ entry = "identify_multiple" /\ pc = "returned" /\ Len(regions) = 2
    /\ Len(regions[1].matches) = 2 /\ Len(regions[2].matches) = 1
    /\ regions[1].matches[1].artist # regions[1].matches[2].artist
    /\ Len(matches) = 1
    /\ matches[1] = regions[1].matches[1]

(***************************************************************************)
(* Claims about the identify command (specification Spec)                  *)
(***************************************************************************)
\* the command got as far as setting up its working directory (cli.py 187)
SetUp ==
    /\ ~(source = "url" /\ timestamp = NoTime)
    /\ cli_services(service, acrcloud_configured) # <<>>

\* C21: a temporary working directory is created exactly when neither
\* --output-dir nor --keep-files is given, it exists while the command
\* works, and it has been removed when the command exits, whatever the exit
\* path (match printed, no match, download failure, missing local file, an
\* error that was raised); with --keep-files nothing is ever removed.
C21_TempDirRemoved ==
    entry = "identify" =>
        /\ temp_dir # "none" => ~output_dir /\ ~keep_files /\ SetUp
        /\ (pc \notin {"call", "exit"} /\ ~output_dir /\ ~keep_files)
              => temp_dir = "created"
        /\ pc = "exit" => temp_dir # "created"
        /\ (pc = "exit" /\ ~output_dir /\ ~keep_files /\ SetUp)
              => temp_dir = "removed"
        /\ keep_files => temp_dir = "none"

\* the command ended on an exception that no handler of the command names
\* (the transcode of the downloaded file failed) and the directory is gone
C21_Witness ==
    /\ entry = "identify" /\ pc = "exit"
    /\ download.raised = "ProcessingError"
    /\ temp_dir = "removed"

\* extractions and provider calls made so far
Work == SelectSeq(events, LAMBDA e : e.op \in {"extract", "shazam", "acrcloud"})

\* C22: the identify command exits with a non-zero status when the source
\* is a URL and no timestamp is given, and then nothing was downloaded and
\* no provider was called; when the local source file does not exist, and
\* then no provider was called; and when the download raises DownloadError,
\* and then nothing is extracted and no provider is called.
C22_NonZeroExits ==
    entry = "identify" =>
        /\ (source = "url" /\ timestamp = NoTime /\ pc # "call") =>
              /\ pc = "exit" /\ exit_code = 1
              /\ tool = NoTool /\ download = NoDownload /\ Work = <<>>
        /\ source = "missing" =>
              /\ pc \in {"call", "acquire", "exit"} /\ Work = <<>>
              /\ pc = "exit" => exit_code = 1
        /\ download.raised = "DownloadError" =>
              pc = "exit" /\ exit_code = 1 /\ Work = <<>>

\* yt-dlp ran out of time: the command has ended with status 1
C22_Witness ==
    /\ entry = "identify" /\ pc = "exit" /\ exit_code = 1
    /\ tool.outcome = "timeout" /\ download.raised = "DownloadError"

\* the key or the secret of provider B is not set
CredentialsAbsent ==
    settings.acrcloud_access_key = "" \/ settings.acrcloud_access_secret = ""

\* the command ended at cli.py 183-185: no identification service is left
NoServicesExit ==
    pc = "exit" /\ ~time_missing(source, timestamp) /\ services = <<>>

\* provider B was not consulted
AcrcloudSkipped ==
    /\ "acrcloud" \notin Range(services)
    /\ \A n \in 1..Len(events) : events[n].op # "acrcloud"

\* C23 as stated: for every service selection (all, shazam, acrcloud), when
\* the credentials of provider B are absent the identify command skips
\* provider B and does not end with an error exit on that account.
C23_AbsentCredentialsNeverError ==
    (entry = "identify" /\ CredentialsAbsent) =>
        AcrcloudSkipped /\ ~NoServicesExit

\* C23 as amended: without credentials provider B is never consulted; with
\* the selections all and shazam the command goes on with shazam alone and
\* does not exit on that account; with the selection acrcloud no service is
\* left and the command exits with status 1 before the working directory,
\* the download and any provider call.
C23_SkippedUnlessOnlyAcrcloud ==
    (entry = "identify" /\ CredentialsAbsent) =>
        /\ AcrcloudSkipped
        /\ (pc # "call" /\ ~time_missing(source, timestamp)) =>
              IF service = "acrcloud"
              THEN /\ NoServicesExit /\ exit_code = 1
                   /\ temp_dir = "none" /\ tool = NoTool /\ Work = <<>>
              ELSE services = <<"shazam">> /\ ~NoServicesExit

\* the key is set and the secret is not, every service is selected: shazam
\* alone was asked, its match was printed
C23_Witness ==
    /\ entry = "identify" /\ service = "all"
    /\ settings.acrcloud_access_key # "" /\ settings.acrcloud_access_secret = ""
    /\ pc = "exit" /\ exit_code = 0 /\ result # NoMatch
    /\ \E n \in 1..Len(events) : events[n].op = "shazam"

\* the extractions made so far
Extractions == SelectSeq(events, LAMBDA e : e.op = "extract")

\* C25: for a clip downloaded from a URL and for a local file given with a
\* timestamp and chunks > 1, the segment cut for window i covers the seconds
\* [start_i, end_i) of the original recording: the offset given to
\* extract_segment is where start_i lies in the file that is cut, and the
\* duration is end_i - start_i.
C25_SegmentsCoverWindows ==
    entry = "identify" =>
        \A n \in 1..Len(Extractions) :
            LET e == Extractions[n]
                window == boundaries[e.chunk + 1]
            IN  /\ audio_path.start + e.args[1] = window[1]
                /\ e.args[2] = window[2] - window[1]

\* C26: when a timestamp is given for a local file, the audio submitted to
\* the providers is the window around that timestamp, for every chunk count
\* including the default of 1: every provider call is made on a segment
\* that was cut from the file at the start of its window, never on the
\* whole file.
C26_TimestampWindowSubmitted ==
    (entry = "identify" /\ source = "local" /\ timestamp # NoTime) =>
        \A n \in 1..Len(events) :
            events[n].op \in {"shazam", "acrcloud"} =>
                \E m \in 1..(n - 1) :
                    /\ events[m].op = "extract" /\ events[m].outcome = "ok"
                    /\ events[m].chunk = events[n].chunk
                    /\ events[m].args[1] =
                           calculate_chunk_boundaries(timestamp, num_chunks)
                               [events[n].chunk + 1][1]

(***************************************************************************)
(* Further claims about chop_into_chunks (specification SpecChop)          *)
(***************************************************************************)
\* C27: every chunk that chop_into_chunks plans starts inside the audio:
\* for a duration d > 0 and a chunk duration c > 0 every planned index i
\* has i * c < d; a file shorter than one chunk gets one chunk, at 0.
C27_ChunksStartInsideAudio ==
    (entry = "chop_into_chunks" /\ total_duration > 0
                                /\ pc \in {"chop", "returned"}) =>
        /\ \A j \in 0..(num_chunks - 1) : j * chunk_duration < total_duration
        /\ \A n \in 1..Len(events) : events[n].args[1] < total_duration
        /\ total_duration < chunk_duration => num_chunks = 1

\* the chunk file j holds the audio of the source from `start` on, for
\* `duration` seconds: an extraction with these arguments wrote it whole
Holds(j, start, duration) ==
    /\ non_empty(disk[j + 1])
    /\ \E n \in 1..Len(events) :
         /\ events[n].chunk = j /\ events[n].outcome = "ok"
         /\ events[n].args = <<start, duration>>

\* C29 (specification SpecRechop): after any sequence of calls of
\* chop_into_chunks for one source and one output directory, with chunk
\* durations that may differ and a directory that may hold empty chunk
\* files of an earlier run, every entry (i, start, path) that a call with
\* the chunk duration c returns has start = i * c and names a non-empty
\* file holding the audio from i * c for the duration c, and every planned
\* chunk whose audio exists (it starts inside the source and no extraction
\* of it failed) is returned.
C29_ReturnedChunksHoldTheirAudio ==
    (entry = "chop_into_chunks_again" /\ pc = "returned") =>
        /\ \A j \in 1..Len(chunks) :
              /\ chunks[j][2] = chunks[j][1] * chunk_duration
              /\ Holds(chunks[j][1], chunks[j][2], chunk_duration)
        /\ \A c \in 0..(num_chunks - 1) :
              (/\ c * chunk_duration < total_duration
               /\ \A n \in 1..Len(events) :
                     events[n].chunk = c => events[n].outcome = "ok")
                  => \E j \in 1..Len(chunks) : chunks[j][1] = c

(***************************************************************************)
(* Claims about download_audio called again (specification SpecRedownload) *)
(***************************************************************************)
\* the file that download_audio took, as yt-dlp left it
SelectedFile ==
    IF download.selected # <<>> /\ download.selected[1] = "candidate"
    THEN tool_files.cand[download.selected[2]]
    ELSE "absent"

\* yt-dlp wrote no file with data
NothingProduced == \A e \in 1..Len(CandidateExts) : tool_files.cand[e] # "data"

\* C28: a file returned by download_audio was produced by the downloader
\* during that call: when the downloader exits non-zero or produces nothing,
\* DownloadError is raised even if a non-empty file on the destination stem
\* was there before the call, and such a file is never returned, converted,
\* renamed or deleted.
C28_OnlyFreshFiles ==
    (entry = "download_audio_again" /\ pc \in {"returned", "raised"}) =>
        /\ download.raised = "none" => SelectedFile = "data"
        /\ (tool.outcome = "exit1" \/ NothingProduced)
              => download.raised = "DownloadError"
        /\ \A e \in 1..Len(CandidateExts) :
              tool_files.cand[e] = "old" => download.dir.cand[e] = "old"

\* C30 (specification SpecDownload): every failure of download_audio is
\* reported as DownloadError, no other exception type escapes it; a
\* transcode of a candidate that fails or times out is a DownloadError too.
C30_OnlyDownloadErrorEscapes ==
    (entry = "download_audio" /\ pc = "raised") =>
        download.raised = "DownloadError"

(***************************************************************************)
(* Claims about the time strings (specification SpecTime)                  *)
(***************************************************************************)
\* C24: round trip: for every number of seconds s >= 0, parse_time gives s
\* back from format_time(s), from format_time(s, always_include_hours=True)
\* and from format_time_padded(s), also for s >= 3600 and for hour counts of
\* three digits; parse_time does not raise on any of these strings.
C24_RoundTrip ==
    entry = "parse_time" =>
        /\ pc # "raised"
        /\ pc = "returned" => timestamp = seconds

\* 100 hours, 59 minutes and 9 seconds, padded: "100:59:09" is parsed back
C24_Witness ==
    /\ entry = "parse_time" /\ pc = "returned"
    /\ time_format = "format_time_padded"
    /\ seconds = MaxHours * 3600 + 59 * 60 + 9
    /\ Len(time) = 9 /\ time[1] = "1"
    /\ timestamp = seconds

====
